---- MODULE Spec2Model ----
(***************************************************************************)
(* tle-fetcher: the tiered acquisition engine (fetch/service.py,           *)
(* fetch/cache.py, fetch/sources.py, tle_fetcher/tle.py), the discovery    *)
(* pipeline (ingest/pipeline.py, ingest/catalog_sources.py), the rate      *)
(* limit and the transport call of one source client (fetch/sources.py),   *)
(* and the record validator on text (tle_fetcher/tle.py,                   *)
(* tle_fetcher/core/python_impl.py, tle_fetcher/core/types.py).            *)
(*                                                                         *)
(* Time is an integer read from the injected clock.  A TLE's two element   *)
(* lines are one value of Lines (the pair (line1, line2)).  verify_percent *)
(* and the rng's float are held in hundredths (0.5 is 50, 100.0 is 10000). *)
(* An optional value is a sequence of length 0 (None) or 1.                *)
(***************************************************************************)
EXTENDS Integers, Sequences, FiniteSets, TLC

\* ---------------------------------------------------------------- bounds
MaxTime == 2        \* the clock runs over 0..MaxTime
MaxBatch == 2       \* fetch_many is called with at most MaxBatch identities
MaxRuns == 3        \* DiscoveryPipeline.run is called at most MaxRuns times
MaxMono == 4        \* the monotonic clock runs over 0..MaxMono
MaxRequests == 3    \* SourceClient.fetch is called at most MaxRequests times

\* ---------------------------------------------------------------- inputs
Ids == {"25544", "40000"}
FocusId == "25544"
Lines == {"A", "B"}
\* FetchService.sources: the configured clients, in priority order
Sources == <<"celestrak", "ivan">>
TTLs == {0, 1}
\* verify_percent in hundredths: 0, 0.5 (a fraction) and 100.0 (a percentage)
Percents == {0, 50, 10000}
\* rng() in hundredths: 0.0 and 0.5
Rngs == {0, 50}
\* what one call of client.fetch does: raise SourceError, return a payload
\* parse_tle_text rejects, or return a payload carrying the lines A or B
Responses == {"error", "garbage", "A", "B"}

None == <<>>
Some(x) == <<x>>
IsSome(o) == Len(o) > 0
Get(o) == o[1]

VARIABLES
    clock,      \* the value the injected clock returns
    cache,      \* InMemoryCache._entries: identity -> optional CacheEntry
    repo,       \* the Repository's entries: identity -> optional CacheEntry
    last,       \* the last call of fetch_one / fetch_many and its outcome
    entries,    \* the rows of the table catalog_entries
    runs,       \* the rows of the table runs, by id
    payloads,   \* the rows of the table catalog_cache
    drun,       \* the last call of DiscoveryPipeline.run and its outcome
    mono,       \* the value time.monotonic() returns
    last_request, \* SourceClient._last_request
    callers,    \* each thread inside SourceClient.fetch: its position, locals
    requests,   \* the monotonic times at which the opener was called
    outcomes,   \* how each call of SourceClient.fetch ended, in order
    text,       \* the payload handed to the validator
    want,       \* the identity the caller of the validator expects
    line,       \* the line handed to the checksum rule
    vout,       \* the last call of the validator and its outcome
    solo,       \* a SourceClient used by one caller, and its calls so far
    http,       \* the call of http_get in progress: its position, locals
    pipes,      \* each DiscoveryPipeline on the shared database: its run in progress
    writer,     \* the pipeline whose connection holds the database's write lock
    seals       \* the updates that sealed a row of runs, in commit order

\* the acquisition service, the discovery pipeline, one source client, the
\* record validator
fetchVars == <<clock, cache, repo, last>>
discoveryVars == <<entries, runs, payloads, drun>>
rateVars == <<mono, last_request, callers, requests, outcomes>>
textVars == <<text, want, line, vout>>
soloVars == <<solo>>
httpVars == <<http>>
stepVars == <<pipes, writer, seals>>
vars == <<fetchVars, discoveryVars, stepVars, soloVars, httpVars, rateVars, textVars>>

\* ------------------------------------------------------------ data model
\* tle.TLE (name omitted: no decision of the service reads it)
TLE(norad_id, lines, source) ==
    [norad_id |-> norad_id, lines |-> lines, source |-> source]

\* cache.CacheEntry
CacheEntry(tle, fetched_at, source) ==
    [tle |-> tle, fetched_at |-> fetched_at, source |-> source]

\* CacheEntry.age
Age(entry, now) == now - entry.fetched_at

\* is_stale with >= for >: an entry aged exactly ttl counts as stale
IsStaleGe(entry, ttl, now) == Age(entry, now) >= ttl

\* CacheEntry.is_stale (ttl is never None on the paths of fetch_one)
IsStale(entry, ttl, now) == Age(entry, now) > ttl

\* a cache that never answers
CacheGetMiss(c, norad_id, ttl, allow_stale, now) == None

\* InMemoryCache.get(norad_id, ttl, allow_stale); the cache's own clock is
\* the same injected clock
CacheGet(c, norad_id, ttl, allow_stale, now) ==
    IF ~IsSome(c[norad_id]) THEN None
    ELSE IF IsStale(Get(c[norad_id]), ttl, now) /\ ~allow_stale THEN None
    ELSE c[norad_id]

\* a get that evicts the entry it withholds
InMemoryCacheGetEvict(c, norad_id, ttl, allow_stale, now) ==
    IF ~IsSome(ttl) THEN [entries |-> c, found |-> c[norad_id]]
    ELSE IF IsSome(CacheGet(c, norad_id, Get(ttl), allow_stale, now))
    THEN [entries |-> c, found |-> c[norad_id]]
    ELSE [entries |-> [c EXCEPT ![norad_id] = None], found |-> None]
\* InMemoryCache.get with its optional ttl (None: lines 44-45 return the
\* entry whatever its age): the map as the call leaves it and what is
\* returned
InMemoryCacheGet(c, norad_id, ttl, allow_stale, now) ==
    IF ~IsSome(ttl) THEN [entries |-> c, found |-> c[norad_id]]
    ELSE [entries |-> c,
          found |-> CacheGet(c, norad_id, Get(ttl), allow_stale, now)]

\* a set that writes nothing
CacheSetDrop(c, entry) == c
\* InMemoryCache.set: keyed by the record's own identity, last write wins
CacheSet(c, entry) == [c EXCEPT ![entry.tle.norad_id] = Some(entry)]

\* InMemoryCache.delete
CacheDelete(c, norad_id) == [c EXCEPT ![norad_id] = None]

\* save that writes nothing
RepoSaveSkip(r, entry) == r

\* Repository.get / Repository.save (the get/save capability of the protocol)
\* a save that writes the entry under every identity
RepoSaveAll(r, entry) == [k \in DOMAIN r |-> Some(entry)]
RepoGet(r, norad_id) == r[norad_id]

RepoSave(r, entry) == [r EXCEPT ![entry.tle.norad_id] = Some(entry)]

\* ------------------------------------------------------------ tle.parse_tle_text
\* parse_tle_text(norad_id, text, source): a TLE carrying the payload's lines,
\* tagged with the requested identity and the source, or a ValueError
ParseTleText(norad_id, payload, source) ==
    IF payload \in Lines
    THEN [ok |-> TRUE, tle |-> Some(TLE(norad_id, payload, source)), msg |-> ""]
    ELSE [ok |-> FALSE, tle |-> None,
          msg |-> "could not locate TLE line pair in response"]

\* SourceClient.fetch raising: the text of the SourceError
SourceErrorText(name) == name \o " network error"

\* errors = {key: value}: the earlier entries are dropped
DictSetOverwrite(d, key, value) == <<(<<key, value>>)>>

\* errors[key] = value on a Python dict held as a sequence of <<key, value>>
\* in insertion order: an existing key keeps its place, a new one is appended
DictSet(d, key, value) ==
    IF \E i \in 1..Len(d) : d[i][1] = key
    THEN [i \in 1..Len(d) |-> IF d[i][1] = key THEN <<key, value>> ELSE d[i]]
    ELSE Append(d, <<key, value>>)

\* _should_verify without the early return and with <= for <
ShouldVerifyLe(percent, rng) ==
    IF percent > 100 THEN rng * 100 <= percent ELSE rng <= percent

\* ------------------------------------------------ FetchService._should_verify
ShouldVerify(percent, rng) ==
    IF percent <= 0 THEN FALSE
    ELSE IF percent > 100 THEN rng * 100 < percent   \* rng < percent / 100.0
    ELSE rng < percent                               \* rng < percent

\* the loop without the return on success: every client is called and the
\* last one that validates wins
RECURSIVE NetLoopNoStop(_, _, _, _, _, _, _, _)
NetLoopNoStop(i, c, r, now, norad_id, resp, calls, errors) ==
    IF i > Len(Sources)
    THEN [cache |-> c, repo |-> r, calls |-> calls, errors |-> errors,
          entry |-> IF IsSome(c[norad_id])
                       /\ \E j \in 1..Len(calls) : calls[j].response \in Lines
                    THEN c[norad_id] ELSE <<>>]
    ELSE LET name == Sources[i]
             called == Append(calls, [name |-> name, response |-> resp[i]])
         IN  IF resp[i] \in Lines
             THEN LET entry == [tle |-> [norad_id |-> norad_id,
                                         lines |-> resp[i], source |-> name],
                                fetched_at |-> now, source |-> name]
                  IN  NetLoopNoStop(i + 1,
                                    [c EXCEPT ![norad_id] = <<entry>>],
                                    [r EXCEPT ![norad_id] = <<entry>>],
                                    now, norad_id, resp, called, errors)
             ELSE NetLoopNoStop(i + 1, c, r, now, norad_id, resp, called,
                                Append(errors, <<name, "failed">>))

\* ------------------------------------------- FetchService._fetch_from_network
\* The loop over self.sources from client i on.  resp[i] is what client i's
\* fetch does when called.  The result carries the tiers as written, the
\* calls of client.fetch made (in call order, each with what it did), the
\* errors dict, and the entry returned.
RECURSIVE NetLoop(_, _, _, _, _, _, _, _)
NetLoop(i, c, r, now, norad_id, resp, calls, errors) ==
    IF i > Len(Sources)
    THEN [cache |-> c, repo |-> r, calls |-> calls, errors |-> errors,
          entry |-> None]
    ELSE LET name == Sources[i]
             called == Append(calls, [name |-> name, response |-> resp[i]])
         IN  IF resp[i] = "error"
             THEN NetLoop(i + 1, c, r, now, norad_id, resp, called,
                          DictSet(errors, name, SourceErrorText(name)))
             ELSE LET parsed == ParseTleText(norad_id, resp[i], name)
                  IN  IF parsed.ok
                      THEN LET entry == CacheEntry(Get(parsed.tle), now, name)
                           IN  [cache |-> CacheSet(c, entry),
                                repo |-> RepoSave(r, entry),
                                calls |-> called, errors |-> errors,
                                entry |-> Some(entry)]
                      ELSE NetLoop(i + 1, c, r, now, norad_id, resp, called,
                                   DictSet(errors, name, parsed.msg))

\* _fetch_from_network that raises whatever allow_failure says
FetchFromNetworkStrict(c, r, now, norad_id, resp, allow_failure) ==
    LET run == NetLoop(1, c, r, now, norad_id, resp, <<>>, <<>>)
    IN  [cache |-> run.cache, repo |-> run.repo, calls |-> run.calls,
         entry |-> run.entry,
         raised |-> ~IsSome(run.entry),
         error |-> IF ~IsSome(run.entry)
                   THEN Some([kind |-> "AllSourcesFailed",
                              norad_id |-> norad_id, parts |-> run.errors])
                   ELSE None]

\* _fetch_from_network(norad_id, allow_failure): raised is TRUE when the
\* SourceError "All sources failed for <id>: ..." leaves the method; its text
\* is held as the identity and the joined <<name, message>> parts
FetchFromNetwork(c, r, now, norad_id, resp, allow_failure) ==
    LET run == NetLoop(1, c, r, now, norad_id, resp, <<>>, <<>>)
    IN  [cache |-> run.cache, repo |-> run.repo, calls |-> run.calls,
         entry |-> run.entry,
         raised |-> ~IsSome(run.entry) /\ ~allow_failure,
         error |-> IF ~IsSome(run.entry) /\ ~allow_failure
                   THEN Some([kind |-> "AllSourcesFailed",
                              norad_id |-> norad_id, parts |-> run.errors])
                   ELSE None]

\* ------------------------------------------------------ service.FetchResult
FetchResult(tle, source, fetched_at, stale, verified, warnings) ==
    [tle |-> tle, source |-> source, fetched_at |-> fetched_at,
     stale |-> stale, verified |-> verified, warnings |-> warnings]

WarnCacheReplaced == "Cache entry replaced after verification"
WarnRepoReplaced == "Repository entry replaced after verification"
WarnOffline == "Operating offline with stale TLE"
WarnStaleReplaced == "Replaced stale TLE with fresh network result"

\* what a call of fetch_one leaves behind: the tiers, the calls of
\* client.fetch it made, the calls of repository.get it made, and either the
\* FetchResult or the exception
\* a failing call that drops the cache entry of the identity it was for
RaisedEvicting(c, r, calls, error) ==
    [cache |-> [c EXCEPT ![error.norad_id] = None], repo |-> r,
     calls |-> calls, raised |-> TRUE, result |-> None,
     error |-> Some(error), repo_reads |-> 0]
Returned(c, r, calls, result) ==
    [cache |-> c, repo |-> r, calls |-> calls, raised |-> FALSE,
     result |-> Some(result), error |-> None, repo_reads |-> 0]
Raised(c, r, calls, error) ==
    [cache |-> c, repo |-> r, calls |-> calls, raised |-> TRUE,
     result |-> None, error |-> Some(error), repo_reads |-> 0]
\* line 110: repository.get was called on the way to this outcome
AfterRepoGet(out) == [out EXCEPT !.repo_reads = 1]

\* stale candidates taken from the repository alone
FreshestStaleRepoOnly(cache_entry, repo_entry) == repo_entry

\* the first stale candidate, whatever its fetched_at
FreshestStaleFirst(cache_entry, repo_entry) ==
    IF IsSome(cache_entry) THEN cache_entry ELSE repo_entry

\* max(stale_candidates, key=fetched_at) over [cache_entry, repo_entry]:
\* the first maximal element, so the cache entry wins a tie
FreshestStale(cache_entry, repo_entry) ==
    IF IsSome(cache_entry) /\ IsSome(repo_entry)
    THEN IF Get(repo_entry).fetched_at > Get(cache_entry).fetched_at
         THEN repo_entry ELSE cache_entry
    ELSE IF IsSome(cache_entry) THEN cache_entry
    ELSE repo_entry

\* verification that marks the hit verified but never replaces the record
VerifiedHitKeep(c, r, now, norad_id, found, first, replaced, resp) ==
    LET net == FetchFromNetwork(c, r, now, norad_id, resp, TRUE)
    IN  IF ~IsSome(net.entry)
        THEN Returned(net.cache, net.repo, net.calls, first)
        ELSE Returned(net.cache, net.repo, net.calls,
                      [first EXCEPT !.verified = TRUE])

\* verification that marks the hit verified whether a client answered or not
VerifiedHitAlways(c, r, now, norad_id, found, first, replaced, resp) ==
    LET net == FetchFromNetwork(c, r, now, norad_id, resp, TRUE)
    IN  IF ~IsSome(net.entry)
        THEN Returned(net.cache, net.repo, net.calls,
                      [first EXCEPT !.verified = TRUE])
        ELSE LET refreshed == Get(net.entry)
             IN  IF refreshed.tle.lines # found.tle.lines
                 THEN Returned(net.cache, net.repo, net.calls,
                               FetchResult(refreshed.tle, refreshed.source,
                                           refreshed.fetched_at, FALSE, TRUE,
                                           <<replaced>>))
                 ELSE Returned(CacheSet(net.cache, refreshed),
                               RepoSave(net.repo, refreshed), net.calls,
                               [first EXCEPT !.verified = TRUE])

\* lines 90-108 and 118-135: the verification of a fresh hit.  found is the
\* entry of the tier that answered, first the result built from it; an
\* exception of _fetch_from_network is not caught here
VerifiedHit(c, r, now, norad_id, found, first, replaced, resp) ==
    LET net == FetchFromNetwork(c, r, now, norad_id, resp, TRUE)
    IN  IF net.raised
        THEN Raised(net.cache, net.repo, net.calls, Get(net.error))
        ELSE IF ~IsSome(net.entry)
        THEN Returned(net.cache, net.repo, net.calls, first)
        ELSE LET refreshed == Get(net.entry)
             IN  IF refreshed.tle.lines # found.tle.lines
                 THEN Returned(net.cache, net.repo, net.calls,
                               FetchResult(refreshed.tle, refreshed.source,
                                           refreshed.fetched_at, FALSE, TRUE,
                                           <<replaced>>))
                 ELSE Returned(CacheSet(net.cache, refreshed),
                               RepoSave(net.repo, refreshed), net.calls,
                               [first EXCEPT !.verified = TRUE])

\* ------------------------------------------------- FetchService.fetch_one
FetchOneCall(c, r, now, norad_id, ttl, percent, rng, offline, resp) ==
    LET cache_entry == CacheGet(c, norad_id, ttl, TRUE, now)
        repo_entry == RepoGet(r, norad_id)
    IN  IF IsSome(cache_entry) /\ ~IsStale(Get(cache_entry), ttl, now)
        THEN LET e == Get(cache_entry)
                 first == FetchResult(e.tle, "cache", e.fetched_at,
                                      FALSE, FALSE, <<>>)
             IN  IF ShouldVerify(percent, rng)
                 THEN VerifiedHit(c, r, now, norad_id, e, first,
                                  WarnCacheReplaced, resp)
                 ELSE Returned(c, r, <<>>, first)
        ELSE AfterRepoGet(
             IF IsSome(repo_entry) /\ ~IsStale(Get(repo_entry), ttl, now)
        THEN LET e == Get(repo_entry)
                 promoted == CacheSet(c, e)
                 first == FetchResult(e.tle, e.source, e.fetched_at,
                                      FALSE, FALSE, <<>>)
             IN  IF ShouldVerify(percent, rng)
                 THEN VerifiedHit(promoted, r, now, norad_id, e, first,
                                  WarnRepoReplaced, resp)
                 ELSE Returned(promoted, r, <<>>, first)
        ELSE LET freshest_stale == FreshestStale(cache_entry, repo_entry)
             IN  IF offline
                 THEN IF IsSome(freshest_stale)
                      THEN LET e == Get(freshest_stale)
                           IN  Returned(c, r, <<>>,
                                        FetchResult(e.tle, e.source,
                                                    e.fetched_at, TRUE, FALSE,
                                                    <<WarnOffline>>))
                      ELSE Raised(c, r, <<>>,
                                  [kind |-> "OfflineUnavailable",
                                   norad_id |-> norad_id, parts |-> <<>>])
                 ELSE LET net == FetchFromNetwork(c, r, now, norad_id, resp,
                                                  FALSE)
                      IN  IF net.raised
                          THEN Raised(net.cache, net.repo, net.calls,
                                      Get(net.error))
                          ELSE LET e == Get(net.entry)
                               IN  Returned(
                                     net.cache, net.repo, net.calls,
                                     FetchResult(
                                       e.tle, e.source, e.fetched_at, FALSE,
                                       FALSE,
                                       IF IsSome(freshest_stale)
                                          /\ IsStale(Get(freshest_stale), ttl, now)
                                       THEN <<WarnStaleReplaced>> ELSE <<>>)))

\* ------------------------------------------------ FetchService.fetch_many
\* The loop of fetch_many from position i on: results collects what
\* fetch_one returned, attempted the identities fetch_one was called with.
\* An exception of fetch_one is not caught: it leaves the loop and the method.
RECURSIVE ManyLoop(_, _, _, _, _, _, _, _, _, _, _, _)
ManyLoop(i, ids, c, r, now, ttl, percent, rng, offline, resp, results, attempted) ==
    IF i > Len(ids)
    THEN [cache |-> c, repo |-> r, raised |-> FALSE, results |-> results,
          attempted |-> attempted, error |-> None]
    ELSE LET one == FetchOneCall(c, r, now, ids[i], ttl, percent, rng,
                                 offline, resp)
         IN  IF one.raised
             THEN [cache |-> one.cache, repo |-> one.repo, raised |-> TRUE,
                   results |-> results,
                   attempted |-> Append(attempted, ids[i]),
                   error |-> one.error]
             ELSE ManyLoop(i + 1, ids, one.cache, one.repo, now, ttl, percent,
                           rng, offline, resp,
                           Append(results, Get(one.result)),
                           Append(attempted, ids[i]))

FetchManyCall(c, r, now, ids, ttl, percent, rng, offline, resp) ==
    ManyLoop(1, ids, c, r, now, ttl, percent, rng, offline, resp, <<>>, <<>>)

\* ------------------------------------------------ the discovery pipeline
\* ingest/pipeline.py, ingest/catalog_sources.py.  A datetime is a wall time t
\* and an optional UTC offset (none: a naive datetime).  The ISO text of a
\* naive datetime is held as its t: the text orders as the time does, and
\* fromisoformat gives the naive datetime back.
Naive(t) == [t |-> t, utcoffset |-> None]
Aware(t, off) == [t |-> t, utcoffset |-> Some(off)]
\* DiscoveryPipeline._normalise
Normalise(d) ==
    IF IsSome(d.utcoffset) THEN Naive(d.t - Get(d.utcoffset)) ELSE d
IsoFormat(d) == d.t
FromIsoFormat(t) == Naive(t)

\* catalog_sources.SOURCES
CatalogSources == {"celestrak", "ivan"}
\* element-line pairs a feed can carry: the catalogue number and the epoch
\* are fields of line 1; the pair X fails the checksum rule
GoodLines == {"A", "B", "C"}
BadLines == "X"
CatnumField(l) == IF l = "C" THEN "40000" ELSE "25544"
\* tle.tle_epoch
TleEpoch(l) == IF l = "B" THEN Naive(2) ELSE Naive(1)

\* catalog_sources.CatalogEntry (name omitted: it is no key column and no
\* decision reads it)
CatalogEntry(source, norad_id, lines, epoch) ==
    [source |-> source, norad_id |-> norad_id, lines |-> lines,
     epoch |-> epoch]
\* a key without the norad_id column
IdentityNoNorad(e) == <<e.source, e.lines>>
\* CatalogEntry.identity, the primary key of catalog_entries
Identity(e) == <<e.source, e.norad_id, e.lines>>

\* a raw payload: the text feed is a list of element-line pairs, the JSON feed
\* a list of items with satelliteId, the lines and an optional timestamp
TextPayload(blocks) == [format |-> "tle", blocks |-> blocks, items |-> <<>>]
JsonPayload(items) == [format |-> "json", blocks |-> <<>>, items |-> items]
Item(satelliteId, lines, timestamp) ==
    [satelliteId |-> satelliteId, lines |-> lines, timestamp |-> timestamp]

\* catalog_sources._iter_tle_blocks and _entries_from_lines: a pair seen
\* before in the payload is skipped; parse_tle_text raises on a bad pair
RECURSIVE EntriesFromLines(_, _, _, _)
EntriesFromLines(blocks, i, source, acc) ==
    IF i > Len(blocks) THEN [ok |-> TRUE, entries |-> acc, msg |-> ""]
    ELSE IF \E j \in 1..(i - 1) : blocks[j] = blocks[i]
    THEN EntriesFromLines(blocks, i + 1, source, acc)
    ELSE IF blocks[i] = BadLines
    THEN [ok |-> FALSE, entries |-> <<>>, msg |-> "checksum failed"]
    ELSE EntriesFromLines(blocks, i + 1, source,
             Append(acc, CatalogEntry(source, CatnumField(blocks[i]),
                                      blocks[i], TleEpoch(blocks[i]))))

\* IvanSource.parse on a JSON document: every item is an entry, under the
\* satelliteId the item gives and the item's timestamp when it has one
RECURSIVE EntriesFromItems(_, _, _, _)
EntriesFromItems(items, i, source, acc) ==
    IF i > Len(items) THEN [ok |-> TRUE, entries |-> acc, msg |-> ""]
    ELSE IF items[i].lines = BadLines
    THEN [ok |-> FALSE, entries |-> <<>>, msg |-> "checksum failed"]
    ELSE EntriesFromItems(items, i + 1, source,
             Append(acc, CatalogEntry(source, items[i].satelliteId,
                                      items[i].lines,
                                      IF IsSome(items[i].timestamp)
                                      THEN Get(items[i].timestamp)
                                      ELSE TleEpoch(items[i].lines))))

\* CelesTrakSource.parse, IvanSource.parse; a JSON document has no line that
\* starts an element-line pair, so the text parser finds nothing in it
Parse(source, payload) ==
    IF payload.format = "tle"
    THEN EntriesFromLines(payload.blocks, 1, source, <<>>)
    ELSE IF source = "ivan"
    THEN EntriesFromItems(payload.items, 1, source, <<>>)
    ELSE [ok |-> TRUE, entries |-> <<>>, msg |-> ""]

\* a key without the since part
CacheKeyNoSince(source, since) == <<source, None>>
\* CatalogResponseCache._cache_key: the source and the ISO text of since
CacheKey(source, since) ==
    <<source, IF IsSome(since) THEN Some(IsoFormat(Get(since))) ELSE None>>
\* CatalogResponseCache.load
CacheLoad(P, source, since) ==
    LET hit == {row \in P : row.cache_key = CacheKey(source, since)}
    IN  IF hit = {} THEN None ELSE Some((CHOOSE row \in hit : TRUE).payload)
\* CatalogResponseCache.store: insert, or update the row of that key
CacheStore(P, source, since, payload) ==
    {row \in P : row.cache_key # CacheKey(source, since)}
        \cup {[cache_key |-> CacheKey(source, since), payload |-> payload]}

NoCachedResponse(source) ==
    source \o ": no cached response available for offline mode"
LoaderErrorText == "network unreachable"
StorageErrorText == "database is locked"

\* CatalogSource.fetch.  upstream is what the loader does when called: None
\* when it raises, else the payload it returns.  The payload is parsed before
\* it is stored, so a payload that does not parse is not kept.
SourceFetch(P, source, since, offline, upstream) ==
    IF offline
    THEN LET cached == CacheLoad(P, source, since)
         IN  IF ~IsSome(cached)
             THEN [ok |-> FALSE, parsed |-> <<>>, used_cache |-> FALSE,
                   payloads |-> P, loader_calls |-> 0,
                   msg |-> NoCachedResponse(source)]
             ELSE LET got == Parse(source, Get(cached))
                  IN  [ok |-> got.ok, parsed |-> got.entries,
                       used_cache |-> TRUE, payloads |-> P,
                       loader_calls |-> 0, msg |-> got.msg]
    ELSE IF ~IsSome(upstream)
    THEN [ok |-> FALSE, parsed |-> <<>>, used_cache |-> FALSE,
          payloads |-> P, loader_calls |-> 1, msg |-> LoaderErrorText]
    ELSE LET got == Parse(source, Get(upstream))
         IN  IF ~got.ok
             THEN [ok |-> FALSE, parsed |-> <<>>, used_cache |-> FALSE,
                   payloads |-> P, loader_calls |-> 1, msg |-> got.msg]
             ELSE [ok |-> TRUE, parsed |-> got.entries, used_cache |-> FALSE,
                   payloads |-> CacheStore(P, source, since, Get(upstream)),
                   loader_calls |-> 1, msg |-> ""]

SetMax(S) == CHOOSE x \in S : \A y \in S : y <= x

\* latest_cursor without "cursor IS NOT NULL": the cursor of the last row of
\* that source, NULL or not
LatestCursorLastRow(R, source) ==
    LET mine == {i \in 1..Len(R) : R[i].source = source}
    IN  IF mine = {} \/ ~IsSome(R[SetMax(mine)].cursor) THEN None
        ELSE Some(FromIsoFormat(Get(R[SetMax(mine)].cursor)))
\* DiscoveryPipeline.latest_cursor: the cursor of the row of that source with
\* the greatest id among those whose cursor is not NULL
LatestCursor(R, source) ==
    LET sealed == {i \in 1..Len(R) :
                       R[i].source = source /\ IsSome(R[i].cursor)}
    IN  IF sealed = {} THEN None
        ELSE Some(FromIsoFormat(Get(R[SetMax(sealed)].cursor)))

\* _max_epoch without "WHERE source = ?"
MaxEpochAll(E, source) ==
    IF E = {} THEN None
    ELSE Some(FromIsoFormat(SetMax({row.epoch : row \in E})))
\* _max_epoch with MIN for MAX
MinEpoch(E, source) ==
    LET mine == {row \in E : row.source = source}
    IN  IF mine = {} THEN None
        ELSE Some(FromIsoFormat(
                 CHOOSE x \in {row.epoch : row \in mine} :
                     \A row \in mine : x <= row.epoch))
\* DiscoveryPipeline._max_epoch: MAX(epoch) over the rows of that source
MaxEpoch(E, source) ==
    LET mine == {row \in E : row.source = source}
    IN  IF mine = {} THEN None
        ELSE Some(FromIsoFormat(SetMax({row.epoch : row \in mine})))

\* a plain INSERT that counts every entry
InsertAlways(E, entry) == TRUE
\* one INSERT OR IGNORE INTO catalog_entries: a row with the primary key
\* (source, norad_id, line1, line2) of the entry makes the insert a no-op
InsertOrIgnore(E, entry) ==
    ~\E row \in E : Identity(row) = Identity(entry)

\* DiscoveryPipeline._store_entries: the entries whose insert added a row
RECURSIVE StoreEntries(_, _, _, _)
StoreEntries(E, filtered, i, new) ==
    IF i > Len(filtered) THEN [entries |-> E, new |-> new]
    ELSE IF InsertOrIgnore(E, filtered[i])
    THEN StoreEntries(
             E \cup {[source |-> filtered[i].source,
                      norad_id |-> filtered[i].norad_id,
                      lines |-> filtered[i].lines,
                      epoch |-> IsoFormat(filtered[i].epoch)]},
             filtered, i + 1, Append(new, filtered[i]))
    ELSE StoreEntries(E, filtered, i + 1, new)

\* the boundary test with >= for >
KeepsGe(boundary, entry_epoch) ==
    ~IsSome(boundary) \/ entry_epoch.t >= Get(boundary).t
\* run(), lines 207-225: the entry with its epoch normalised; it is kept when
\* there is no boundary or its epoch is strictly later than the boundary
Keeps(boundary, entry_epoch) ==
    ~IsSome(boundary) \/ entry_epoch.t > Get(boundary).t

RECURSIVE Filter(_, _, _, _)
Filter(parsed, boundary, i, acc) ==
    IF i > Len(parsed) THEN acc
    ELSE LET entry_epoch == Normalise(parsed[i].epoch)
         IN  IF Keeps(boundary, entry_epoch)
             THEN Filter(parsed, boundary, i + 1,
                      Append(acc, [parsed[i] EXCEPT !.epoch = entry_epoch]))
             ELSE Filter(parsed, boundary, i + 1, acc)

\* DiscoveryPipeline._log_run_start: the new row of runs; its id is the next
\* one (AUTOINCREMENT, and no row is ever deleted)
LogRunStart(R, source, since, offline) ==
    Append(R, [id |-> Len(R) + 1, source |-> source,
               since |-> IF IsSome(since) THEN Some(IsoFormat(Get(since)))
                         ELSE None,
               offline |-> offline, finished |-> FALSE, cursor |-> None,
               used_cache |-> FALSE, new_entries |-> 0, error |-> None])

\* the update of _log_run_finish with no WHERE clause: every row is written
LogRunFinishEveryRow(R, run_id, cursor, used_cache, new_entries) ==
    [i \in 1..Len(R) |->
        [R[i] EXCEPT !.finished = TRUE,
                     !.cursor = IF IsSome(cursor)
                                THEN Some(IsoFormat(Get(cursor))) ELSE None,
                     !.used_cache = used_cache,
                     !.new_entries = new_entries]]
\* DiscoveryPipeline._log_run_finish
LogRunFinish(R, run_id, cursor, used_cache, new_entries) ==
    [R EXCEPT ![run_id].finished = TRUE,
              ![run_id].cursor = IF IsSome(cursor)
                                 THEN Some(IsoFormat(Get(cursor))) ELSE None,
              ![run_id].used_cache = used_cache,
              ![run_id].new_entries = new_entries]

\* _log_run_error that sets no finished_at
LogRunErrorUnsealed(R, run_id, message) ==
    [R EXCEPT ![run_id].error = Some(message)]
\* DiscoveryPipeline._log_run_error
LogRunError(R, run_id, message) ==
    [R EXCEPT ![run_id].finished = TRUE, ![run_id].error = Some(message)]

\* a store step that is not rolled back
AfterRollbackKeep(before, pending) == pending
\* what the connection holds after the transaction of the store step was
\* rolled back: the rows as they were before it
AfterRollback(before, pending) == before

\* run(), lines 192-194: since or latest_cursor(source), normalised
EffectiveSince(R, source, since) ==
    LET chosen == IF IsSome(since) THEN since ELSE LatestCursor(R, source)
    IN  IF IsSome(chosen) THEN Some(Normalise(Get(chosen))) ELSE None

\* DiscoveryPipeline.run(source, since, offline, loader).  storage_fails: a
\* statement of the store step raises (sqlite3.Error).  The row of the run is
\* committed before the fetch.  The payload kept by the fetch is written in
\* the transaction the store step ends: it is committed with the entries and
\* the sealed row, or rolled back with them.
RunCall(E, R, P, source, since, offline, upstream, storage_fails) ==
    LET effective_since == EffectiveSince(R, source, since)
        run_id == Len(R) + 1
        started == LogRunStart(R, source, effective_since, offline)
        got == SourceFetch(P, source, effective_since, offline, upstream)
        filtered == Filter(got.parsed, effective_since, 1, <<>>)
        stored == StoreEntries(E, filtered, 1, <<>>)
        cursor == MaxEpoch(stored.entries, source)
        out == [entries |-> E, runs |-> started, payloads |-> P,
                raised |-> FALSE, error |-> None, result |-> None,
                loader_calls |-> got.loader_calls,
                effective_since |-> effective_since,
                fetched |-> got.ok, parsed |-> got.parsed,
                filtered |-> <<>>]
    IN  IF ~got.ok
        THEN [out EXCEPT !.raised = TRUE, !.error = Some(got.msg),
                         !.runs = LogRunError(started, run_id, got.msg)]
        ELSE IF storage_fails
        THEN [out EXCEPT !.raised = TRUE, !.error = Some(StorageErrorText),
                         !.filtered = filtered,
                         !.entries = AfterRollback(E, stored.entries),
                         !.runs = LogRunError(started, run_id,
                                              StorageErrorText)]
        ELSE [out EXCEPT !.filtered = filtered,
                         !.entries = stored.entries,
                         !.payloads = got.payloads,
                         !.runs = LogRunFinish(started, run_id, cursor,
                                      got.used_cache, Len(stored.new)),
                         !.result = Some(
                             [run_id |-> run_id, source |-> source,
                              entries |-> stored.new,
                              used_cache |-> got.used_cache,
                              cursor |-> cursor,
                              effective_since |-> effective_since])]

\* ------------------------------------------------ the record validator
\* tle_fetcher/tle.py and tle_fetcher/core (python_impl.py, types.py) on
\* text.  A text is a sequence of characters, NL the line break; a JSON
\* document is held as the object json.loads gives for it.
NL == "LF"
DigitValue ==
    [ch \in {"0", "1", "2", "3", "4", "5", "6", "7", "8", "9"} |->
        CASE ch = "0" -> 0 [] ch = "1" -> 1 [] ch = "2" -> 2 [] ch = "3" -> 3
          [] ch = "4" -> 4 [] ch = "5" -> 5 [] ch = "6" -> 6 [] ch = "7" -> 7
          [] ch = "8" -> 8 [] ch = "9" -> 9]
\* str.isdigit on one character, and on a string
IsDigit(ch) == ch \in DOMAIN DigitValue
IsDigits(s) == s # <<>> /\ \A i \in 1..Len(s) : IsDigit(s[i])
IsSpace(ch) == ch \in {" ", NL}

\* int(s) on a string of digits
RECURSIVE IntOf(_)
IntOf(s) ==
    IF s = <<>> THEN 0
    ELSE 10 * IntOf(SubSeq(s, 1, Len(s) - 1)) + DigitValue[s[Len(s)]]

\* str.rstrip, str.lstrip, str.strip
RECURSIVE RStrip(_)
RStrip(s) ==
    IF s = <<>> THEN s
    ELSE IF IsSpace(s[Len(s)]) THEN RStrip(SubSeq(s, 1, Len(s) - 1))
    ELSE s
RECURSIVE LStrip(_)
LStrip(s) ==
    IF s = <<>> THEN s
    ELSE IF IsSpace(s[1]) THEN LStrip(Tail(s))
    ELSE s
Strip(s) == LStrip(RStrip(s))

\* str.startswith
StartsWith(s, prefix) ==
    Len(s) >= Len(prefix) /\ SubSeq(s, 1, Len(prefix)) = prefix
One == <<"1", " ">>
Two == <<"2", " ">>
\* line.startswith(("1 ", "2 "))
IsElementLine(s) == StartsWith(s, One) \/ StartsWith(s, Two)

\* the sum of tle_checksum_ok / checksum over line[:-1] from position i on
RECURSIVE Total(_, _)
Total(s, i) ==
    IF i > Len(s) THEN 0
    ELSE (IF IsDigit(s[i]) THEN DigitValue[s[i]]
          ELSE IF s[i] = "-" THEN 1 ELSE 0) + Total(s, i + 1)

\* the checksum without the modulo
ChecksumNoMod(l) ==
    LET s == RStrip(l)
    IN  IF s = <<>> THEN FALSE
        ELSE IF ~IsDigit(s[Len(s)]) THEN FALSE
        ELSE Total(SubSeq(s, 1, Len(s) - 1), 1) = DigitValue[s[Len(s)]]
\* tle.tle_checksum_ok and python_impl.checksum (the same code)
Checksum(l) ==
    LET s == RStrip(l)
    IN  IF s = <<>> THEN FALSE
        ELSE IF ~IsDigit(s[Len(s)]) THEN FALSE
        ELSE Total(SubSeq(s, 1, Len(s) - 1), 1) % 10 = DigitValue[s[Len(s)]]

\* _catnum_field: line[2:7].strip()
CatnumOf(l) ==
    Strip(SubSeq(l, 3, IF Len(l) < 7 THEN Len(l) ELSE 7))

\* str.splitlines from position i on: cur is the line being read
RECURSIVE SplitLines(_, _, _, _)
SplitLines(s, i, cur, acc) ==
    IF i > Len(s) THEN IF cur = <<>> THEN acc ELSE Append(acc, cur)
    ELSE IF s[i] = NL THEN SplitLines(s, i + 1, <<>>, Append(acc, cur))
    ELSE SplitLines(s, i + 1, Append(cur, s[i]), acc)

\* [ln.strip() for ln in text.splitlines() if ln.strip()]
RECURSIVE StripAll(_, _, _)
StripAll(lines, i, acc) ==
    IF i > Len(lines) THEN acc
    ELSE IF Strip(lines[i]) = <<>> THEN StripAll(lines, i + 1, acc)
    ELSE StripAll(lines, i + 1, Append(acc, Strip(lines[i])))
StrippedLines(s) == StripAll(SplitLines(s, 1, <<>>, <<>>), 1, <<>>)

\* "\n".join(lines)
RECURSIVE Join(_, _)
Join(lines, i) ==
    IF i > Len(lines) THEN <<>>
    ELSE IF i = Len(lines) THEN lines[i]
    ELSE lines[i] \o <<NL>> \o Join(lines, i + 1)

\* a payload: a text, or the text of a JSON object with the keys line1 and
\* line2 and an optional name; the one line of that text starts with a brace
TextOf(chars) == [format |-> "text", chars |-> chars, doc |-> None]
JsonOf(name, line1, line2) ==
    [format |-> "json", chars |-> <<"{">>,
     doc |-> Some([name |-> name, line1 |-> line1, line2 |-> line2])]
NoText == TextOf(<<>>)

\* the scan for the first line starting "1 " that is followed by one starting
\* "2 ", from index idx on (1-based); the line before is the name unless it
\* is an element line itself
RECURSIVE LocatePair(_, _)
LocatePair(lines, idx) ==
    IF idx > Len(lines)
    THEN [found |-> FALSE, name |-> None, line1 |-> <<>>, line2 |-> <<>>]
    ELSE IF StartsWith(lines[idx], One) /\ idx + 1 <= Len(lines)
            /\ StartsWith(lines[idx + 1], Two)
    THEN [found |-> TRUE,
          name |-> IF idx - 1 >= 1 /\ ~IsElementLine(lines[idx - 1])
                   THEN Some(lines[idx - 1]) ELSE None,
          line1 |-> lines[idx], line2 |-> lines[idx + 1]]
    ELSE LocatePair(lines, idx + 1)

\* json.loads(text) and the reads of its keys: the strings are taken as they
\* are in the document
JsonLoad(payload) ==
    IF payload.format = "json"
    THEN [found |-> TRUE, name |-> Get(payload.doc).name,
          line1 |-> Get(payload.doc).line1, line2 |-> Get(payload.doc).line2]
    ELSE [found |-> FALSE, name |-> None, line1 |-> <<>>, line2 |-> <<>>]

\* types.TLE / tle.TLE
ElementSet(norad_id, name, line1, line2, source) ==
    [norad_id |-> norad_id, name |-> name, line1 |-> line1, line2 |-> line2,
     source |-> source]
Parsed(tle) == [ok |-> TRUE, tle |-> Some(tle), msg |-> ""]
ValueError(msg) == [ok |-> FALSE, tle |-> None, msg |-> msg]

\* python_impl.parse(text, norad_id=..., source=...)
CoreParse(payload, norad_id, source) ==
    LET located == LocatePair(StrippedLines(payload.chars), 1)
        got == IF located.found THEN located ELSE JsonLoad(payload)
        cat1 == CatnumOf(got.line1)
        cat2 == CatnumOf(got.line2)
        cat_digits == SelectSeq(cat1, LAMBDA ch : ch # " ")
    IN  IF ~got.found
        THEN ValueError("Could not locate TLE line pair in response")
        ELSE IF got.line1 = <<>> \/ got.line2 = <<>>
        THEN ValueError("Empty TLE line detected")
        ELSE IF ~StartsWith(got.line1, One) \/ ~StartsWith(got.line2, Two)
        THEN ValueError("Bad TLE line prefixes")
        ELSE IF ~Checksum(got.line1) \/ ~Checksum(got.line2)
        THEN ValueError("Checksum failed")
        ELSE IF cat1 # cat2
        THEN ValueError("Catalog numbers differ between L1 and L2")
        ELSE IF /\ norad_id # <<>>
                /\ IsDigits(norad_id)
                /\ IsDigits(cat_digits)
                /\ IntOf(cat_digits) # IntOf(norad_id)
        THEN ValueError("Catalog number does not match requested NORAD ID")
        ELSE Parsed(ElementSet(IF norad_id # <<>> THEN norad_id
                                ELSE Strip(cat1),
                               got.name, got.line1, got.line2,
                               IF source # "" THEN source ELSE "unknown"))

\* tle.parse_tle_text(norad_id, text, source).  The ValueError of the identity
\* test (line 102) is raised inside the try whose except ValueError passes
\* (lines 99-104): it never leaves the function.
TleParse(norad_id, payload, source) ==
    LET lines == StrippedLines(payload.chars)
        located == LocatePair(lines, 1)
        got == IF located.found THEN located ELSE JsonLoad(payload)
    IN  IF lines = <<>> THEN ValueError("empty TLE payload")
        ELSE IF ~got.found
        THEN ValueError("could not locate TLE line pair in response")
        ELSE IF ~(StartsWith(got.line1, One) /\ StartsWith(got.line2, Two))
        THEN ValueError("bad TLE prefixes")
        ELSE IF ~Checksum(got.line1) \/ ~Checksum(got.line2)
        THEN ValueError("checksum failed")
        ELSE IF CatnumOf(got.line1) # CatnumOf(got.line2)
        THEN ValueError("catalog numbers differ between lines")
        ELSE Parsed(ElementSet(norad_id, got.name, got.line1, got.line2,
                               source))

\* TLE.as_text(three_line=True): the name line when there is a name that is
\* not empty, then line1 and line2, each ended by a line break
AsText(tle) ==
    IF IsSome(tle.name) /\ Get(tle.name) # <<>>
    THEN TextOf(Get(tle.name) \o <<NL>> \o tle.line1 \o <<NL>> \o tle.line2
                \o <<NL>>)
    ELSE TextOf(tle.line1 \o <<NL>> \o tle.line2 \o <<NL>>)

\* _iter_tle_blocks without the set seen
RECURSIVE IterTleBlocksAll(_, _, _, _)
IterTleBlocksAll(lines, idx, seen, acc) ==
    IF idx > Len(lines) THEN acc
    ELSE IF ~StartsWith(lines[idx], One) \/ idx + 1 > Len(lines)
    THEN IterTleBlocksAll(lines, idx + 1, seen, acc)
    ELSE IF ~StartsWith(lines[idx + 1], Two)
    THEN IterTleBlocksAll(lines, idx + 1, seen, acc)
    ELSE IterTleBlocksAll(lines, idx + 1, seen,
             Append(acc, [name |-> IF idx - 1 >= 1
                                      /\ ~IsElementLine(lines[idx - 1])
                                   THEN Some(lines[idx - 1]) ELSE None,
                          line1 |-> lines[idx], line2 |-> lines[idx + 1]]))
\* catalog_sources._iter_tle_blocks from index idx on (1-based): seen is the
\* set of the fingerprints yielded, acc what was yielded, in order
RECURSIVE IterTleBlocks(_, _, _, _)
IterTleBlocks(lines, idx, seen, acc) ==
    IF idx > Len(lines) THEN acc
    ELSE IF ~StartsWith(lines[idx], One) \/ idx + 1 > Len(lines)
    THEN IterTleBlocks(lines, idx + 1, seen, acc)
    ELSE IF ~StartsWith(lines[idx + 1], Two)
    THEN IterTleBlocks(lines, idx + 1, seen, acc)
    ELSE IF <<lines[idx], lines[idx + 1]>> \in seen
    THEN IterTleBlocks(lines, idx + 1, seen, acc)
    ELSE IterTleBlocks(lines, idx + 1,
             seen \cup {<<lines[idx], lines[idx + 1]>>},
             Append(acc, [name |-> IF idx - 1 >= 1
                                      /\ ~IsElementLine(lines[idx - 1])
                                   THEN Some(lines[idx - 1]) ELSE None,
                          line1 |-> lines[idx], line2 |-> lines[idx + 1]]))

\* catalog_sources._entries_from_lines from block i on: each block is parsed
\* again by parse_tle_text under the catalogue number of its line 1; a
\* ValueError leaves the loop.  The epoch of an entry is left out: it is read
\* from columns the lines here do not have.
RECURSIVE BlockEntries(_, _, _, _)
BlockEntries(blocks, i, source, acc) ==
    IF i > Len(blocks) THEN [ok |-> TRUE, entries |-> acc, msg |-> ""]
    ELSE LET b == blocks[i]
             norad_id == CatnumOf(b.line1)
             joined == Join((IF IsSome(b.name) THEN <<Get(b.name)>> ELSE <<>>)
                                \o <<b.line1, b.line2>>, 1)
             parsed == TleParse(norad_id, TextOf(joined), source)
         IN  IF ~parsed.ok
             THEN [ok |-> FALSE, entries |-> <<>>, msg |-> parsed.msg]
             ELSE BlockEntries(blocks, i + 1, source,
                      Append(acc, [source |-> source,
                                   norad_id |-> IF Get(parsed.tle).norad_id # <<>>
                                                THEN Get(parsed.tle).norad_id
                                                ELSE norad_id,
                                   name |-> Get(parsed.tle).name,
                                   line1 |-> Get(parsed.tle).line1,
                                   line2 |-> Get(parsed.tle).line2]))

\* CelesTrakSource.parse(payload): the candidates and what becomes of them
CelesTrakParse(payload) ==
    LET blocks == IterTleBlocks(StrippedLines(payload.chars), 1, {}, <<>>)
        made == BlockEntries(blocks, 1, "celestrak", <<>>)
    IN  [blocks |-> blocks, ok |-> made.ok, entries |-> made.entries,
         msg |-> made.msg]

\* ------------------------------------------------------------- the machine
Idle ==
    [op |-> "none", norad_id |-> "", ids |-> <<>>, ttl |-> 0, percent |-> 0,
     rng |-> 0, offline |-> FALSE, now |-> 0,
     pre_cache |-> None, pre_repo |-> None,
     calls |-> <<>>, raised |-> FALSE, result |-> None, error |-> None,
     results |-> <<>>, attempted |-> <<>>,
     repo_reads |-> 0, prior |-> None,
     no_ttl |-> FALSE, allow_stale |-> FALSE, got |-> None]

\* no call of DiscoveryPipeline.run yet
DIdle ==
    [op |-> "none", source |-> "", since |-> None, offline |-> FALSE,
     upstream |-> None, pre_entries |-> {}, raised |-> FALSE, error |-> None,
     result |-> None, loader_calls |-> 0, effective_since |-> None,
     fetched |-> FALSE, parsed |-> <<>>, filtered |-> <<>>, prev |-> None,
     raised_ids |-> {}, counted |-> <<>>, explicit_since |-> FALSE]

\* no call of the validator yet
VIdle ==
    [op |-> "none", ok |-> FALSE, msg |-> "", tle |-> None, first |-> None,
     serialized |-> NoText, accepted |-> FALSE, blocks |-> <<>>,
     entries |-> <<>>]

\* the DiscoveryPipeline objects opened on one database file, each with its
\* own connection
Pipes == {"p1", "p2"}
\* no connection holds the write lock
NoWriter == ""
\* no statement of the connection is waiting to be committed
NoTxn == [added |-> {}, payloads |-> None]
\* a pipeline with no call of run in progress
PIdle ==
    [pc |-> "idle", source |-> "", since |-> None, offline |-> FALSE,
     effective_since |-> None, run_id |-> 0, upstream |-> None,
     loader_calls |-> 0, parsed |-> <<>>, used_cache |-> FALSE,
     filtered |-> <<>>, idx |-> 1, new |-> <<>>, txn |-> NoTxn,
     error |-> None, result |-> None, pre_entries |-> {}, met |-> {}]

\* no call of http_get in progress
HIdle ==
    [pc |-> "idle", retries |-> 0, backoff |-> 0, attempt |-> 0,
     last_exc |-> None, log |-> <<>>, result |-> None, raised |-> None]

\* no SourceClient for a single caller has been constructed yet
NoClient ==
    [made |-> FALSE, rate_limit_seconds |-> 0, last_request |-> 0,
     calls |-> <<>>]

\* SourceClient(rate_limit_seconds=RateLimit) shared by the threads Callers
RateLimit == 2
Callers == {"t1", "t2"}
Outside == [pc |-> "outside", now |-> 0, wake |-> 0]

\* FetchService(cache=InMemoryCache(), repository=..., sources=Sources);
\* DiscoveryPipeline(db_path) on a new database; SourceClient(...)
Init ==
    /\ clock = 0
    /\ cache = [k \in Ids |-> None]
    /\ repo = [k \in Ids |-> None]
    /\ last = Idle
    /\ entries = {}
    /\ runs = <<>>
    /\ payloads = {}
    /\ drun = DIdle
    /\ mono = 0
    /\ last_request = 0
    /\ callers = [c \in Callers |-> Outside]
    /\ requests = <<>>
    /\ outcomes = <<>>
    /\ text = NoText
    /\ want = <<>>
    /\ line = <<>>
    /\ vout = VIdle
    /\ solo = NoClient
    /\ http = HIdle
    /\ pipes = [p \in Pipes |-> PIdle]
    /\ writer = NoWriter
    /\ seals = <<>>

\* the injected clock moves on
Tick ==
    /\ last.op = "none"
    /\ clock < MaxTime
    /\ clock' = clock + 1
    /\ UNCHANGED <<cache, repo, last, discoveryVars, stepVars, soloVars, httpVars, rateVars, textVars>>

\* an entry as a caller of cache.set / repository.save builds it now
LocalEntry(norad_id, lines) ==
    CacheEntry(TLE(norad_id, lines, "local"), clock, "local")

\* InMemoryCache.set called directly, as the tests do to seed the cache
EnvCacheSet(idset) ==
    /\ last.op = "none"
    /\ \E k \in idset, l \in Lines :
        /\ cache' = CacheSet(cache, LocalEntry(k, l))
        /\ UNCHANGED <<clock, repo, last, discoveryVars, stepVars, soloVars, httpVars, rateVars, textVars>>

\* InMemoryCache.delete called directly
EnvCacheDelete(idset) ==
    /\ last.op = "none"
    /\ \E k \in idset :
        /\ IsSome(cache[k])
        /\ cache' = CacheDelete(cache, k)
        /\ UNCHANGED <<clock, repo, last, discoveryVars, stepVars, soloVars, httpVars, rateVars, textVars>>

\* Repository.save called directly (another writer of the durable store)
EnvRepoSave(idset, lineset) ==
    /\ last.op = "none"
    /\ \E k \in idset, l \in lineset :
        /\ repo' = RepoSave(repo, LocalEntry(k, l))
        /\ UNCHANGED <<clock, cache, last, discoveryVars, stepVars, soloVars, httpVars, rateVars, textVars>>

\* what the configured clients do when called, one answer per client
RespSets == [1..Len(Sources) -> Responses]
\* every client fails; the first client answers with the lines A
RespFew == {[i \in 1..Len(Sources) |-> "error"], [i \in 1..Len(Sources) |-> "A"]}

\* a call of fetch_one(norad_id, cache_ttl, verify_percent, offline)
FetchOne(idset, ttls, percents, rngs, resps) ==
    /\ last.op = "none"
    /\ \E k \in idset, ttl \in ttls, percent \in percents, rng \in rngs,
          offline \in BOOLEAN, resp \in resps :
        \E out \in {FetchOneCall(cache, repo, clock, k, ttl, percent, rng,
                                 offline, resp)} :
            /\ cache' = out.cache
            /\ repo' = out.repo
            /\ last' = [Idle EXCEPT !.op = "fetch_one", !.norad_id = k,
                            !.ttl = ttl, !.percent = percent, !.rng = rng,
                            !.offline = offline, !.now = clock,
                            !.pre_cache = cache[k], !.pre_repo = repo[k],
                            !.calls = out.calls, !.raised = out.raised,
                            !.result = out.result, !.error = out.error,
                            !.repo_reads = out.repo_reads]
            /\ UNCHANGED <<clock, discoveryVars, stepVars, soloVars, httpVars, rateVars, textVars>>

\* fetch_one called again for the same identity with the same cache_ttl as
\* soon as the call before has returned: the clock has not moved.  prior
\* keeps what the call before found and did.
FetchOneAgain(percents, rngs, resps) ==
    /\ last.op = "fetch_one"
    /\ ~last.raised
    /\ \E percent \in percents, rng \in rngs, offline \in BOOLEAN,
          resp \in resps :
        \E out \in {FetchOneCall(cache, repo, clock, last.norad_id, last.ttl,
                                 percent, rng, offline, resp)} :
            /\ cache' = out.cache
            /\ repo' = out.repo
            /\ last' = [Idle EXCEPT !.op = "fetch_one_again",
                            !.norad_id = last.norad_id,
                            !.ttl = last.ttl, !.percent = percent, !.rng = rng,
                            !.offline = offline, !.now = clock,
                            !.pre_cache = cache[last.norad_id],
                            !.pre_repo = repo[last.norad_id],
                            !.calls = out.calls, !.raised = out.raised,
                            !.result = out.result, !.error = out.error,
                            !.repo_reads = out.repo_reads,
                            !.prior = Some([pre_cache |-> last.pre_cache,
                                            pre_repo |-> last.pre_repo,
                                            now |-> last.now,
                                            calls |-> last.calls])]
            /\ UNCHANGED <<clock, discoveryVars, stepVars, soloVars, httpVars, rateVars, textVars>>

\* cache.get(norad_id, ttl=..., allow_stale=...) called directly, as
\* test_cache does: ttl is None or a timedelta
CacheGetCall(idset, ttls) ==
    /\ last.op = "none"
    /\ \E k \in idset, ttl \in ttls, no_ttl \in BOOLEAN, allow_stale \in BOOLEAN :
        \E out \in {InMemoryCacheGet(cache, k, IF no_ttl THEN None ELSE Some(ttl),
                                     allow_stale, clock)} :
            /\ cache' = out.entries
            /\ last' = [Idle EXCEPT !.op = "cache_get", !.norad_id = k,
                            !.ttl = ttl, !.no_ttl = no_ttl,
                            !.allow_stale = allow_stale, !.now = clock,
                            !.pre_cache = cache[k], !.got = out.found]
            /\ UNCHANGED <<clock, repo, discoveryVars, stepVars, soloVars, httpVars, rateVars, textVars>>

RECURSIVE SeqsUpTo(_, _)
SeqsUpTo(S, n) ==
    IF n = 0 THEN {<<>>}
    ELSE LET shorter == SeqsUpTo(S, n - 1)
         IN  shorter \cup {Append(q, x) : q \in shorter, x \in S}

\* a call of fetch_many(norad_ids, cache_ttl, verify_percent, offline); the
\* rng and the clients answer the same way throughout the batch
FetchMany(ttls, percents, rngs, resps) ==
    /\ last.op = "none"
    /\ \E ids \in SeqsUpTo(Ids, MaxBatch), ttl \in ttls, percent \in percents,
          rng \in rngs, offline \in BOOLEAN, resp \in resps :
        \E out \in {FetchManyCall(cache, repo, clock, ids, ttl, percent, rng,
                                  offline, resp)} :
            /\ cache' = out.cache
            /\ repo' = out.repo
            /\ last' = [Idle EXCEPT !.op = "fetch_many", !.ids = ids,
                            !.ttl = ttl, !.percent = percent, !.rng = rng,
                            !.offline = offline, !.now = clock,
                            !.raised = out.raised, !.error = out.error,
                            !.results = out.results,
                            !.attempted = out.attempted]
            /\ UNCHANGED <<clock, discoveryVars, stepVars, soloVars, httpVars, rateVars, textVars>>

\* the caller has taken the outcome of the call; the next call can start
Return ==
    /\ last.op # "none"
    /\ last' = Idle
    /\ UNCHANGED <<clock, cache, repo, discoveryVars, stepVars, soloVars, httpVars, rateVars, textVars>>

\* one identity, every tier seeded directly
Next ==
    \/ Tick
    \/ EnvCacheSet({FocusId})
    \/ EnvCacheDelete({FocusId})
    \/ EnvRepoSave({FocusId}, Lines)
    \/ FetchOne({FocusId}, TTLs, Percents, Rngs, RespSets)
    \/ CacheGetCall({FocusId}, TTLs)
    \/ Return

Spec == Init /\ [][Next]_vars

\* one identity, a call of fetch_one followed by another at once; the rng
\* returns 0.0 and the clients answer as in RespFew
NextTwice ==
    \/ Tick
    \/ EnvCacheSet({FocusId})
    \/ EnvCacheDelete({FocusId})
    \/ EnvRepoSave({FocusId}, Lines)
    \/ FetchOne({FocusId}, TTLs, Percents, {0}, RespFew)
    \/ FetchOneAgain(Percents, {0}, RespFew)
    \/ Return

SpecTwice == Init /\ [][NextTwice]_vars

\* every identity, batches included
NextMany ==
    \/ Tick
    \/ EnvCacheDelete(Ids)
    \/ EnvRepoSave(Ids, {"B"})
    \/ FetchOne(Ids, {1}, {0, 10000}, {0}, RespFew)
    \/ FetchMany({1}, {0, 10000}, {0}, RespFew)
    \/ Return

SpecMany == Init /\ [][NextMany]_vars

\* ------------------------------------------- the discovery pipeline runs
\* The observation drun keeps, beside the last call: the ids of the runs that
\* raised, the keys of the entries each successful run reported as new (in
\* order, over all runs), and whether some run was given an explicit since.

\* the since argument: omitted, a naive datetime, an aware one (t = 2 at
\* UTC+1, which is t = 1 in UTC)
SinceArgs == {None, Some(Naive(0)), Some(Aware(2, 1))}
\* what the text feed serves
TextPayloads ==
    {TextPayload(<<>>), TextPayload(<<"A">>), TextPayload(<<"B", "B">>),
     TextPayload(<<"A", "C">>), TextPayload(<<"A", "X">>)}
\* what the JSON feed serves: the same lines under another timestamp, an
\* item whose satelliteId is not the catalogue number of its lines
JsonPayloads ==
    {JsonPayload(<<Item("25544", "A", None)>>),
     JsonPayload(<<Item("25544", "A", Some(Aware(3, 1)))>>),
     JsonPayload(<<Item("40000", "A", None), Item("25544", "B", None)>>),
     JsonPayload(<<Item("25544", "X", None)>>)}
\* what the loader does when called for that source: raise, or return a payload
Upstreams(source) ==
    {None} \cup {Some(p) : p \in IF source = "celestrak" THEN TextPayloads
                                 ELSE JsonPayloads}

\* the keys of a list of entries, in its order
Identities(list) == [i \in 1..Len(list) |-> Identity(list[i])]

\* what a run leaves for the next one to be compared with
Summary(d) ==
    [source |-> d.source, since |-> d.since, offline |-> d.offline,
     upstream |-> d.upstream, raised |-> d.raised,
     parsed |-> d.parsed, pre_entries |-> d.pre_entries]

\* a call of DiscoveryPipeline.run(source, since=..., offline=..., loader=...)
Run(sourceset, sinces) ==
    /\ Len(runs) < MaxRuns
    /\ \E source \in sourceset, since \in sinces, offline \in BOOLEAN,
          storage_fails \in BOOLEAN :
        \E upstream \in Upstreams(source) :
        \E out \in {RunCall(entries, runs, payloads, source, since, offline,
                            upstream, storage_fails)} :
            /\ entries' = out.entries
            /\ runs' = out.runs
            /\ payloads' = out.payloads
            /\ drun' = [op |-> "run", source |-> source, since |-> since,
                        offline |-> offline,
                        upstream |-> IF offline THEN None ELSE upstream,
                        pre_entries |-> entries, raised |-> out.raised,
                        error |-> out.error, result |-> out.result,
                        loader_calls |-> out.loader_calls,
                        effective_since |-> out.effective_since,
                        fetched |-> out.fetched, parsed |-> out.parsed,
                        filtered |-> out.filtered,
                        prev |-> IF drun.op = "none" THEN None
                                 ELSE Some(Summary(drun)),
                        raised_ids |->
                            IF out.raised
                            THEN drun.raised_ids \cup {Len(runs) + 1}
                            ELSE drun.raised_ids,
                        counted |->
                            IF out.raised THEN drun.counted
                            ELSE drun.counted \o Identities(Get(out.result).entries),
                        explicit_since |->
                            drun.explicit_since \/ IsSome(since)]
            /\ UNCHANGED <<fetchVars, stepVars, soloVars, httpVars, rateVars,
                           textVars>>

NextDiscovery ==
    \/ Run(CatalogSources, SinceArgs)

SpecDiscovery == Init /\ [][NextDiscovery]_vars

\* ------------------------------- runs of two pipelines on one database
\* DiscoveryPipeline.run taken a step at a time by the pipelines Pipes, each
\* on its own sqlite3 connection to the same file.  entries, runs and
\* payloads are the committed tables, which every connection reads.  A
\* connection's first writing statement takes the database's write lock and
\* opens a transaction; the lock is held until the commit or rollback that
\* ends the with-block.  A statement that finds the lock held waits for it: a
\* wait that times out is a storage error of the store step.  txn is what
\* the connection has written and not yet committed.

\* a connection writes without taking the lock
CanWriteAlways(w, p) == TRUE
\* the write lock is free, or this connection holds it
CanWrite(w, p) == w = NoWriter \/ w = p

\* the exception leaves the with-block and the pending rows stay
RollbackKeep(txn) == txn
\* the with-block is left by an exception: the connection rolls back
Rollback(txn) == NoTxn

\* the arguments of run and what the loader returns
StepSources == {"celestrak", "ivan"}
StepSinces == {None, Some(Naive(0))}
StepUpstreams(source) ==
    IF source = "celestrak"
    THEN {None, Some(TextPayload(<<"A">>)), Some(TextPayload(<<"A", "B">>))}
    ELSE {Some(JsonPayload(<<Item("25544", "A", None)>>))}

\* the row of the run exists and is not sealed yet
InProgress(q) == pipes[q].pc \in {"fetch", "store", "failed"}

\* lines 189-195: run is entered; effective_since is since or the latest
\* cursor committed for the source
RunBegin(p) ==
    /\ pipes[p].pc = "idle"
    /\ Len(runs) + Cardinality({q \in Pipes : pipes[q].pc = "start"}) < MaxRuns
    /\ \E source \in StepSources, since \in StepSinces, offline \in BOOLEAN :
        pipes' = [pipes EXCEPT ![p] =
                     [PIdle EXCEPT !.pc = "start", !.source = source,
                                   !.since = since, !.offline = offline,
                                   !.effective_since =
                                       EffectiveSince(runs, source, since)]]
    /\ UNCHANGED <<entries, runs, payloads, drun, writer, seals, fetchVars,
                   soloVars, httpVars, rateVars, textVars>>

\* lines 197-198: the row of the run is inserted and committed
RunLogStart(p) ==
    /\ pipes[p].pc = "start"
    /\ CanWrite(writer, p)
    /\ runs' = LogRunStart(runs, pipes[p].source, pipes[p].effective_since,
                           pipes[p].offline)
    /\ pipes' = [q \in Pipes |->
                    IF q = p
                    THEN [pipes[p] EXCEPT
                             !.pc = "fetch", !.run_id = Len(runs) + 1,
                             !.pre_entries = entries,
                             !.met = {pipes[o].run_id :
                                         o \in {o \in Pipes : InProgress(o)}}]
                    ELSE IF InProgress(q)
                    THEN [pipes[q] EXCEPT !.met = @ \cup {Len(runs) + 1}]
                    ELSE pipes[q]]
    /\ UNCHANGED <<entries, payloads, drun, writer, seals, fetchVars,
                   soloVars, httpVars, rateVars, textVars>>

\* lines 200-225: the source's fetch (the loader or the cached payload, the
\* parse, and online the insert into catalog_cache, which opens the
\* transaction) and the filter; an exception leads to the handler
RunFetch(p) ==
    /\ pipes[p].pc = "fetch"
    /\ \E upstream \in StepUpstreams(pipes[p].source) :
        \E got \in {SourceFetch(payloads, pipes[p].source,
                                 pipes[p].effective_since, pipes[p].offline,
                                 upstream)} :
            /\ (got.ok /\ ~pipes[p].offline) => CanWrite(writer, p)
            /\ pipes' = [pipes EXCEPT ![p] =
                  IF ~got.ok
                  THEN [@ EXCEPT !.pc = "failed", !.error = Some(got.msg),
                                 !.loader_calls = got.loader_calls]
                  ELSE [@ EXCEPT
                           !.pc = "store",
                           !.upstream = IF pipes[p].offline THEN None
                                        ELSE upstream,
                           !.loader_calls = got.loader_calls,
                           !.parsed = got.parsed,
                           !.used_cache = got.used_cache,
                           !.filtered = Filter(got.parsed,
                                               pipes[p].effective_since,
                                               1, <<>>),
                           !.txn = IF pipes[p].offline THEN NoTxn
                                   ELSE [added |-> {},
                                         payloads |-> Some(got.payloads)]]]
            /\ writer' = IF got.ok /\ ~pipes[p].offline THEN p ELSE writer
    /\ UNCHANGED <<entries, runs, payloads, drun, seals, fetchVars,
                   soloVars, httpVars, rateVars, textVars>>

\* _store_entries, lines 159-177: one INSERT OR IGNORE, against the
\* committed rows and the rows this transaction has added
RunInsert(p) ==
    /\ pipes[p].pc = "store"
    /\ pipes[p].idx <= Len(pipes[p].filtered)
    /\ CanWrite(writer, p)
    /\ LET stored == StoreEntries(entries \cup pipes[p].txn.added,
                                  <<pipes[p].filtered[pipes[p].idx]>>, 1,
                                  pipes[p].new)
       IN  pipes' = [pipes EXCEPT ![p].idx = @ + 1,
                                  ![p].new = stored.new,
                                  ![p].txn.added = stored.entries \ entries]
    /\ writer' = p
    /\ UNCHANGED <<entries, runs, payloads, drun, seals, fetchVars,
                   soloVars, httpVars, rateVars, textVars>>

\* a statement of the store step raises sqlite3.Error: the with-block of
\* lines 226-234 is left by the exception
RunStoreFails(p) ==
    /\ pipes[p].pc = "store"
    /\ pipes' = [pipes EXCEPT ![p].pc = "failed",
                              ![p].error = Some(StorageErrorText),
                              ![p].txn = Rollback(@)]
    /\ writer' = IF writer = p THEN NoWriter ELSE writer
    /\ UNCHANGED <<entries, runs, payloads, drun, seals, fetchVars,
                   soloVars, httpVars, rateVars, textVars>>

\* lines 228-242: the cursor is read, the row is sealed, the transaction is
\* committed and run returns
RunFinish(p) ==
    /\ pipes[p].pc = "store"
    /\ pipes[p].idx > Len(pipes[p].filtered)
    /\ CanWrite(writer, p)
    /\ LET view == entries \cup pipes[p].txn.added
           cursor == MaxEpoch(view, pipes[p].source)
       IN  /\ entries' = view
           /\ payloads' = IF IsSome(pipes[p].txn.payloads)
                          THEN Get(pipes[p].txn.payloads) ELSE payloads
           /\ runs' = LogRunFinish(runs, pipes[p].run_id, cursor,
                                   pipes[p].used_cache, Len(pipes[p].new))
           /\ seals' = Append(seals,
                  [run_id |-> pipes[p].run_id, kind |-> "finish",
                   source |-> pipes[p].source, parsed |-> pipes[p].parsed,
                   new |-> Identities(pipes[p].new), met |-> pipes[p].met])
           /\ pipes' = [pipes EXCEPT
                  ![p].pc = "returned", ![p].txn = NoTxn,
                  ![p].result = Some(
                      [run_id |-> pipes[p].run_id, source |-> pipes[p].source,
                       entries |-> pipes[p].new,
                       used_cache |-> pipes[p].used_cache,
                       cursor |-> cursor,
                       effective_since |-> pipes[p].effective_since])]
    /\ writer' = NoWriter
    /\ UNCHANGED <<drun, fetchVars, soloVars, httpVars, rateVars, textVars>>

\* lines 243-246: the handler seals the row with the error text, commits
\* what the connection holds, and the exception leaves run
RunLogError(p) ==
    /\ pipes[p].pc = "failed"
    /\ CanWrite(writer, p)
    /\ entries' = entries \cup pipes[p].txn.added
    /\ payloads' = IF IsSome(pipes[p].txn.payloads)
                   THEN Get(pipes[p].txn.payloads) ELSE payloads
    /\ runs' = LogRunError(runs, pipes[p].run_id, Get(pipes[p].error))
    /\ seals' = Append(seals,
           [run_id |-> pipes[p].run_id, kind |-> "error",
            source |-> pipes[p].source, parsed |-> pipes[p].parsed,
            new |-> <<>>, met |-> pipes[p].met])
    /\ pipes' = [pipes EXCEPT ![p].pc = "raised", ![p].txn = NoTxn]
    /\ writer' = IF writer = p THEN NoWriter ELSE writer
    /\ UNCHANGED <<drun, fetchVars, soloVars, httpVars, rateVars, textVars>>

\* the caller has the RunResult or the exception
RunDone(p) ==
    /\ pipes[p].pc \in {"returned", "raised"}
    /\ pipes' = [pipes EXCEPT ![p] = PIdle]
    /\ UNCHANGED <<entries, runs, payloads, drun, writer, seals, fetchVars,
                   soloVars, httpVars, rateVars, textVars>>

NextSteps ==
    \/ \E p \in Pipes : RunBegin(p)
    \/ \E p \in Pipes : RunLogStart(p)
    \/ \E p \in Pipes : RunFetch(p)
    \/ \E p \in Pipes : RunInsert(p)
    \/ \E p \in Pipes : RunStoreFails(p)
    \/ \E p \in Pipes : RunFinish(p)
    \/ \E p \in Pipes : RunLogError(p)
    \/ \E p \in Pipes : RunDone(p)

SpecSteps == Init /\ [][NextSteps]_vars

\* ------------------------------------------------- SourceClient.fetch
\* what one call of the opener does: raise URLError, raise something else
\* (the default opener's own SourceError for a status other than 200 is one
\* of these), or return the bytes of a payload
OpenerDoes == {"URLError", "Exception", "payload"}

\* fetch, lines 66-74, after _enforce_rate_limit has returned: the request is
\* built and the opener is called once, inside the try; either except clause
\* raises SourceError, anything else is returned decoded
AfterRateLimit(name, does) ==
    IF does = "URLError"
    THEN [opener_calls |-> 1, raised |-> TRUE,
          error |-> name \o " network error"]
    ELSE IF does = "Exception"
    THEN [opener_calls |-> 1, raised |-> TRUE,
          error |-> name \o " unexpected error"]
    ELSE [opener_calls |-> 1, raised |-> FALSE, error |-> ""]

\* ------------------------------------------- one source client, its threads
\* SourceClient.fetch run by the threads Callers on one client, a step per
\* read or write of the shared state.  Computing takes no time: the monotonic
\* clock moves only while every thread is outside fetch or asleep.
\* rate_limit_seconds = RateLimit > 0, so _enforce_rate_limit does not return
\* at its first test.
Inside == {c \in Callers : callers[c].pc # "outside"}

\* time passes
TickMono ==
    /\ mono < MaxMono
    /\ \A c \in Callers : callers[c].pc \in {"outside", "sleeping"}
    /\ mono' = mono + 1
    /\ UNCHANGED <<last_request, callers, requests, outcomes, fetchVars,
                 discoveryVars, stepVars, soloVars, httpVars, textVars>>

\* fetch is entered; _enforce_rate_limit line 47: now = self.monotonic()
ReadClock(c) ==
    /\ callers[c].pc = "outside"
    /\ Len(requests) + Cardinality(Inside) < MaxRequests
    /\ callers' = [callers EXCEPT ![c] = [pc |-> "elapsed", now |-> mono,
                                          wake |-> 0]]
    /\ UNCHANGED <<mono, last_request, requests, outcomes, fetchVars,
                 discoveryVars, stepVars, soloVars, httpVars, textVars>>

\* lines 48-51: elapsed = now - self._last_request; delay = rate_limit_seconds
\* - elapsed; with delay > 0 the thread enters sleeper(delay)
ReadLast(c) ==
    /\ callers[c].pc = "elapsed"
    /\ LET delay == RateLimit - (callers[c].now - last_request)
       IN  callers' = [callers EXCEPT ![c] =
                          IF delay > 0
                          THEN [pc |-> "sleeping", now |-> callers[c].now,
                                wake |-> mono + delay]
                          ELSE [pc |-> "record", now |-> callers[c].now,
                                wake |-> 0]]
    /\ UNCHANGED <<mono, last_request, requests, outcomes, fetchVars,
                 discoveryVars, stepVars, soloVars, httpVars, textVars>>

\* sleeper(delay) returns, not before the delay has passed; line 52: now =
\* self.monotonic()
Wake(c) ==
    /\ callers[c].pc = "sleeping"
    /\ mono >= callers[c].wake
    /\ callers' = [callers EXCEPT ![c] = [pc |-> "record", now |-> mono,
                                          wake |-> 0]]
    /\ UNCHANGED <<mono, last_request, requests, outcomes, fetchVars,
                 discoveryVars, stepVars, soloVars, httpVars, textVars>>

\* line 53: self._last_request = now; then fetch builds the request, calls
\* the opener and ends (lines 66-74)
Record(c) ==
    /\ callers[c].pc = "record"
    /\ \E does \in OpenerDoes :
        /\ last_request' = callers[c].now
        /\ requests' = Append(requests, mono)
        /\ outcomes' = Append(outcomes, AfterRateLimit("celestrak", does))
        /\ callers' = [callers EXCEPT ![c] = Outside]
        /\ UNCHANGED <<mono, fetchVars, discoveryVars, stepVars, soloVars, httpVars, textVars>>

NextRate ==
    \/ TickMono
    \/ \E c \in Callers : ReadClock(c)
    \/ \E c \in Callers : ReadLast(c)
    \/ \E c \in Callers : Wake(c)
    \/ \E c \in Callers : Record(c)

SpecRate == Init /\ [][NextRate]_vars

\* ------------------------------------------- one source client, one caller
\* SourceClient.fetch called by a single caller: a call runs from its entry
\* to its end with no other call of the same client in between.  The sleeper
\* is the injected one: it moves the monotonic clock on by advance, which can
\* be less than the delay it was asked for.

\* the rate_limit_seconds a client is constructed with
RateLimits == {-1, 0, 1, RateLimit}

\* _enforce_rate_limit that keeps the reading taken before the sleep
EnforceRateLimitNoReread(limit, last_seen, clock_now, advance) ==
    IF limit <= 0
    THEN [last_request |-> last_seen, mono |-> clock_now, sleeps |-> <<>>,
          recorded |-> None]
    ELSE LET delay == limit - (clock_now - last_seen)
         IN  IF delay > 0
             THEN [last_request |-> clock_now, mono |-> clock_now + advance,
                   sleeps |-> <<delay>>, recorded |-> Some(clock_now)]
             ELSE [last_request |-> clock_now, mono |-> clock_now,
                   sleeps |-> <<>>, recorded |-> Some(clock_now)]

\* SourceClient._enforce_rate_limit (lines 44-53) for a client with the given
\* rate_limit_seconds and _last_request, entered when the monotonic clock
\* reads clock_now: the new _last_request, the clock when it returns, the
\* delays handed to the sleeper, and the timestamp written (if any)
EnforceRateLimit(limit, last_seen, clock_now, advance) ==
    IF limit <= 0
    THEN [last_request |-> last_seen, mono |-> clock_now, sleeps |-> <<>>,
          recorded |-> None]
    ELSE LET now == clock_now
             elapsed == now - last_seen
             delay == limit - elapsed
         IN  IF delay > 0
             THEN [last_request |-> clock_now + advance,
                   mono |-> clock_now + advance,
                   sleeps |-> <<delay>>,
                   recorded |-> Some(clock_now + advance)]
             ELSE [last_request |-> now, mono |-> clock_now,
                   sleeps |-> <<>>, recorded |-> Some(now)]

\* SourceClient(name, url_template, rate_limit_seconds=limit, monotonic=...,
\* sleeper=...): _last_request starts at 0.0
NewClient ==
    /\ ~solo.made
    /\ \E limit \in RateLimits :
        solo' = [made |-> TRUE, rate_limit_seconds |-> limit,
                 last_request |-> 0, calls |-> <<>>]
    /\ UNCHANGED <<fetchVars, discoveryVars, stepVars, httpVars, rateVars, textVars>>

\* how far the sleeper moves the clock when asked for delay
Advances(delay) == IF delay > 0 THEN {0, delay, delay + 1} ELSE {0}

\* one call of fetch by the single caller (lines 62-74)
FetchSolo ==
    /\ solo.made
    /\ Len(solo.calls) < MaxRequests
    /\ \A c \in Callers : callers[c].pc = "outside"
    /\ \E does \in OpenerDoes,
          advance \in Advances(solo.rate_limit_seconds
                                   - (mono - solo.last_request)) :
        \E out \in {EnforceRateLimit(solo.rate_limit_seconds,
                                      solo.last_request, mono, advance)} :
            /\ out.mono <= MaxMono
            /\ mono' = out.mono
            /\ solo' = [solo EXCEPT
                            !.last_request = out.last_request,
                            !.calls = Append(@,
                                [entered |-> mono, sleeps |-> out.sleeps,
                                 advance |-> advance,
                                 recorded |-> out.recorded,
                                 opener_at |-> out.mono,
                                 outcome |-> AfterRateLimit("celestrak", does)])]
            /\ UNCHANGED <<last_request, callers, requests, outcomes,
                           fetchVars, discoveryVars, stepVars, httpVars, textVars>>

NextSolo ==
    \/ NewClient
    \/ TickMono
    \/ FetchSolo

SpecSolo == Init /\ [][NextSolo]_vars

\* ------------------------------------------------- tle_fetcher.core.http_get
\* http_get(url, timeout, retries, backoff, headers), a step per attempt and
\* per sleep.  Times are in eighths of a second: the jitter
\* random.uniform(0, 0.125) is 0 or 1.
MaxRetries == 2         \* http_get is called with retries of at most MaxRetries

Retries == -1..MaxRetries
\* backoff: negative, zero, 1.0 s
Backoffs == {-1, 0, 8}
Jitters == {0, 1}
\* what one attempt does: urlopen raises URLError; the status is not 200 and
\* HTTPError is raised; resp.read() raises; the body is read with status 200
AttemptOutcomes == {"URLError", "HTTPError", "read", "ok"}

RECURSIVE Pow2(_)
Pow2(n) == IF n = 0 THEN 1 ELSE 2 * Pow2(n - 1)

\* line 61: while attempt <= retries
KeepsTrying(attempt, retries) == attempt <= retries
\* a loop that never takes the break
IsLastAttemptNever(attempt, retries) == FALSE
\* line 72: if attempt == retries: break
IsLastAttempt(attempt, retries) == attempt = retries
\* line 74: sleep = (backoff * (2**attempt)) + random.uniform(0, 0.125)
SleepLength(backoff, attempt, jitter) == backoff * Pow2(attempt) + jitter

\* the exception an attempt raised, the body an attempt read
ExcOf(kind, attempt) == [kind |-> kind, attempt |-> attempt]
BodyOf(attempt) == [attempt |-> attempt]

\* lines 55-60: the call is entered, attempt = 0, last_exc = None
HttpGetCall ==
    /\ http.pc = "idle"
    /\ \E retries \in Retries, backoff \in Backoffs :
        http' = [HIdle EXCEPT !.pc = "loop", !.retries = retries,
                              !.backoff = backoff]
    /\ UNCHANGED <<fetchVars, discoveryVars, stepVars, soloVars, rateVars, textVars>>

\* lines 61-73: the loop test holds and urlopen is called; the body is
\* returned, or the exception is kept in last_exc and the loop is left at
\* the last attempt
Attempt ==
    /\ http.pc = "loop"
    /\ KeepsTrying(http.attempt, http.retries)
    /\ \E does \in AttemptOutcomes :
        http' = IF does = "ok"
                THEN [http EXCEPT !.pc = "returned",
                                  !.log = Append(@, "ok"),
                                  !.result = Some(BodyOf(http.attempt))]
                ELSE [http EXCEPT
                         !.pc = IF IsLastAttempt(http.attempt, http.retries)
                                THEN "after" ELSE "sleep",
                         !.log = Append(@, does),
                         !.last_exc = Some(ExcOf(does, http.attempt))]
    /\ UNCHANGED <<fetchVars, discoveryVars, stepVars, soloVars, rateVars, textVars>>

\* line 61: the loop test fails
ExitLoop ==
    /\ http.pc = "loop"
    /\ ~KeepsTrying(http.attempt, http.retries)
    /\ http' = [http EXCEPT !.pc = "after"]
    /\ UNCHANGED <<fetchVars, discoveryVars, stepVars, soloVars, rateVars, textVars>>

\* lines 74-76: time.sleep(sleep) raises ValueError for a negative length,
\* inside the except clause, so the ValueError leaves http_get; otherwise it
\* returns after the sleep and attempt is incremented
Sleep ==
    /\ http.pc = "sleep"
    /\ \E jitter \in Jitters :
        http' = IF SleepLength(http.backoff, http.attempt, jitter) < 0
                THEN [http EXCEPT !.pc = "raised",
                         !.raised = Some(ExcOf("ValueError", http.attempt))]
                ELSE [http EXCEPT !.pc = "loop",
                                  !.log = Append(@, "sleep"),
                                  !.attempt = @ + 1]
    /\ UNCHANGED <<fetchVars, discoveryVars, stepVars, soloVars, rateVars, textVars>>

\* lines 77-79: RuntimeError when no attempt raised, else raise last_exc
AfterLoop ==
    /\ http.pc = "after"
    /\ http' = [http EXCEPT !.pc = "raised",
                    !.raised = IF ~IsSome(http.last_exc)
                               THEN Some(ExcOf("RuntimeError", http.attempt))
                               ELSE http.last_exc]
    /\ UNCHANGED <<fetchVars, discoveryVars, stepVars, soloVars, rateVars, textVars>>

\* the caller has the body or the exception; http_get can be called again
HttpDone ==
    /\ http.pc \in {"returned", "raised"}
    /\ http' = HIdle
    /\ UNCHANGED <<fetchVars, discoveryVars, stepVars, soloVars, rateVars, textVars>>

\* the steps of a call in progress
HttpStep == Attempt \/ ExitLoop \/ Sleep \/ AfterLoop

NextHttp ==
    \/ HttpGetCall
    \/ Attempt
    \/ ExitLoop
    \/ Sleep
    \/ AfterLoop
    \/ HttpDone

\* urlopen returns or raises within its timeout and time.sleep returns: a
\* call in progress takes its next step
SpecHttp == Init /\ [][NextHttp]_vars /\ WF_vars(HttpStep)

\* ---------------------------------------------- the validator, its callers
\* The payloads, the expected identity and the line are what a caller hands
\* to the validator: they are chosen when the behaviour starts.
MaxLineLen == 3         \* the checksum rule is given lines of at most MaxLineLen characters
MaxCatalogLines == 4    \* a catalogue payload has at most MaxCatalogLines lines

C25544 == <<"2", "5", "5", "4", "4">>
C40000 == <<"4", "0", "0", "0", "0">>
IssName == <<"I", "S", "S">>
\* element lines cut after the catalogue field, then the checksum digit: two
\* that pass the rule and one that does not
LineOnes ==
    {One \o C25544 \o <<"1">>, One \o C25544 \o <<"9">>, One \o C40000 \o <<"5">>}
LineTwos == {Two \o C25544 \o <<"2">>, Two \o C40000 \o <<"6">>}
Names == {None, Some(IssName)}
\* a string as the feed gives it: as it is, or followed by a blank
Trails == {<<>>, <<" ">>}
\* the identities a caller expects: none, 25544, 40000
Wants == {<<>>, C25544, C40000}

\* a two-line or three-line text; with noise a blank line comes first and
\* every line is followed by a blank (test_parse._text_payload)
TextForm(name, line1, line2, noise) ==
    LET pad == IF noise THEN <<" ">> ELSE <<>>
    IN  (IF noise THEN <<NL>> ELSE <<>>)
        \o (IF IsSome(name) THEN Get(name) \o pad \o <<NL>> ELSE <<>>)
        \o line1 \o pad \o <<NL>> \o line2 \o pad \o <<NL>>

RecordPayloads ==
    {TextOf(TextForm(n, l1, l2, noise)) :
        n \in Names, l1 \in LineOnes, l2 \in LineTwos, noise \in BOOLEAN}
    \cup {JsonOf(n, l1 \o t, l2) :
        n \in Names, l1 \in LineOnes, l2 \in LineTwos, t \in Trails}

\* the lines of a catalogue payload: a name and the element lines that pass
\* the checksum rule
CatalogLines ==
    {IssName} \cup {l \in LineOnes \cup LineTwos : Checksum(l)}
CatalogPayloads ==
    {TextOf(Join(q, 1) \o <<NL>>) : q \in SeqsUpTo(CatalogLines, MaxCatalogLines)}

CheckChars == {"0", "1", "9", "-", "U", " "}
CheckLines == SeqsUpTo(CheckChars, MaxLineLen)

InitText ==
    /\ clock = 0
    /\ cache = [k \in Ids |-> None]
    /\ repo = [k \in Ids |-> None]
    /\ last = Idle
    /\ entries = {}
    /\ runs = <<>>
    /\ payloads = {}
    /\ drun = DIdle
    /\ mono = 0
    /\ last_request = 0
    /\ callers = [c \in Callers |-> Outside]
    /\ requests = <<>>
    /\ outcomes = <<>>
    /\ \/ text \in RecordPayloads /\ want \in Wants /\ line = <<>>
       \/ text \in CatalogPayloads /\ want = <<>> /\ line = <<>>
       \/ text = NoText /\ want = <<>> /\ line \in CheckLines
    /\ vout = VIdle
    /\ solo = NoClient
    /\ http = HIdle
    /\ pipes = [p \in Pipes |-> PIdle]
    /\ writer = NoWriter
    /\ seals = <<>>

\* parse(text, norad_id=want, source="test")
ParseCall ==
    /\ vout.op = "none"
    /\ \E out \in {CoreParse(text, want, "test")} :
        vout' = [VIdle EXCEPT !.op = "parse", !.ok = out.ok, !.msg = out.msg,
                              !.tle = out.tle]
    /\ UNCHANGED <<fetchVars, discoveryVars, stepVars, soloVars, httpVars, rateVars, text, want, line>>

\* parse(tle.as_text(), norad_id=want, source="cache") on the record the
\* parse before returned (test_parse_handles_noise, lines 50-52)
RoundTripCall ==
    /\ vout.op = "parse"
    /\ vout.ok
    /\ \E out \in {CoreParse(AsText(Get(vout.tle)), want, "cache")} :
        vout' = [VIdle EXCEPT !.op = "round_trip", !.ok = out.ok,
                              !.msg = out.msg, !.tle = out.tle,
                              !.first = vout.tle,
                              !.serialized = AsText(Get(vout.tle))]
    /\ UNCHANGED <<fetchVars, discoveryVars, stepVars, soloVars, httpVars, rateVars, text, want, line>>

\* parse_tle_text(want, text, "test")
ParseTleTextCall ==
    /\ vout.op = "none"
    /\ \E out \in {TleParse(want, text, "test")} :
        vout' = [VIdle EXCEPT !.op = "parse_tle_text", !.ok = out.ok,
                              !.msg = out.msg, !.tle = out.tle]
    /\ UNCHANGED <<fetchVars, discoveryVars, stepVars, soloVars, httpVars, rateVars, text, want, line>>

\* checksum(line) / tle_checksum_ok(line)
ChecksumCall ==
    /\ vout.op = "none"
    /\ vout' = [VIdle EXCEPT !.op = "checksum", !.accepted = Checksum(line)]
    /\ UNCHANGED <<fetchVars, discoveryVars, stepVars, soloVars, httpVars, rateVars, text, want, line>>

\* CelesTrakSource().parse(text)
CelesTrakParseCall ==
    /\ vout.op = "none"
    /\ \E out \in {CelesTrakParse(text)} :
        vout' = [VIdle EXCEPT !.op = "catalog", !.ok = out.ok,
                              !.msg = out.msg, !.blocks = out.blocks,
                              !.entries = out.entries]
    /\ UNCHANGED <<fetchVars, discoveryVars, stepVars, soloVars, httpVars, rateVars, text, want, line>>

NextText ==
    \/ ParseCall
    \/ RoundTripCall
    \/ ParseTleTextCall
    \/ ChecksumCall
    \/ CelesTrakParseCall

SpecText == InitText /\ [][NextText]_vars

\* ------------------------------------------------------------------ claims
\* The outcome of the last call of fetch_one, read against the tiers as they
\* were when it started.
CallOne == last.op = "fetch_one"
Result == Get(last.result)
Has(seq, x) == \E i \in 1..Len(seq) : seq[i] = x

\* age <= cache_ttl by the service clock
FreshAt(opt) == IsSome(opt) /\ last.now - Get(opt).fetched_at <= last.ttl
PreCacheFresh == FreshAt(last.pre_cache)
PreRepoFresh == ~PreCacheFresh /\ FreshAt(last.pre_repo)
NoFresh == ~FreshAt(last.pre_cache) /\ ~FreshAt(last.pre_repo)
\* the rng's draw fell below the verification probability
Triggered ==
    /\ last.percent > 0
    /\ \/ last.percent > 100 /\ last.rng * 100 < last.percent
       \/ last.percent <= 100 /\ last.rng < last.percent
\* the network step: not offline and no fresh entry in either tier
NetworkStep == CallOne /\ ~last.offline /\ NoFresh
Validates(call) == call.response \in Lines
SomeValidates == \E i \in 1..Len(last.calls) : Validates(last.calls[i])
\* the calls follow the configured priority order from its first client on
InPriorityOrder ==
    /\ Len(last.calls) <= Len(Sources)
    /\ \A i \in 1..Len(last.calls) : last.calls[i].name = Sources[i]

\* C1: with a fresh cache entry and verify_percent = 0, fetch_one returns the
\* cached record and calls no client's fetch, whatever the repository holds
\* and whatever the rng returns.
C1_FreshCacheNoVerifyNoNetwork ==
    (CallOne /\ PreCacheFresh /\ last.percent = 0)
        => /\ ~last.raised
           /\ Result.tle = Get(last.pre_cache).tle
           /\ last.calls = <<>>

C1_Witness ==
    /\ CallOne /\ PreCacheFresh /\ last.percent = 0 /\ last.rng = 0
    /\ IsSome(last.pre_repo)
    /\ Get(last.pre_repo).tle.lines # Get(last.pre_cache).tle.lines
    /\ ~last.raised

\* C2: with the cache entry stale or absent and the repository entry fresh,
\* and verification not triggered, fetch_one returns the repository's record
\* and calls no client's fetch.
C2_FreshRepoNoNetwork ==
    (CallOne /\ PreRepoFresh /\ ~Triggered)
        => /\ ~last.raised
           /\ Result.tle = Get(last.pre_repo).tle
           /\ last.calls = <<>>

C2_Witness ==
    /\ CallOne /\ PreRepoFresh /\ ~Triggered
    /\ IsSome(last.pre_cache)
    /\ Get(last.pre_cache).tle.lines # Get(last.pre_repo).tle.lines
    /\ ~last.raised /\ Result.tle = Get(last.pre_repo).tle

\* C3: offline with no fresh entry in either tier: a stale entry in the cache
\* or the repository is returned with stale = true and the offline warning;
\* with no entry at all the call fails with OfflineUnavailable, no result.
C3_OfflineStaleOrUnavailable ==
    (CallOne /\ last.offline /\ NoFresh)
        => IF IsSome(last.pre_cache) \/ IsSome(last.pre_repo)
           THEN /\ ~last.raised
                /\ Result.stale
                /\ Result.warnings # <<>>
                /\ Has(Result.warnings, WarnOffline)
                /\ \/ IsSome(last.pre_cache)
                      /\ Result.tle = Get(last.pre_cache).tle
                   \/ IsSome(last.pre_repo)
                      /\ Result.tle = Get(last.pre_repo).tle
           ELSE /\ last.raised
                /\ Get(last.error).kind = "OfflineUnavailable"
                /\ last.result = None

C3_Witness ==
    /\ CallOne /\ last.offline /\ NoFresh
    /\ IsSome(last.pre_cache) /\ ~IsSome(last.pre_repo)
    /\ ~last.raised /\ Result.stale

\* C4: fetch_one with offline = true never calls a client's fetch, for every
\* state of the tiers, every verify_percent and every rng outcome.
C4_OfflineNeverCallsSource ==
    (CallOne /\ last.offline) => last.calls = <<>>

\* C5: verification triggered on a fresh cache hit with a reply that
\* validates: lines that differ give verified = true, the network record and
\* the "replaced" warning; identical lines give verified = true, the cached
\* record and no replacement warning.
C5_VerificationReplacesOnDifference ==
    (CallOne /\ PreCacheFresh /\ Triggered /\ SomeValidates)
        => LET reply == last.calls[Len(last.calls)]
               cached == Get(last.pre_cache)
           IN  /\ ~last.raised
               /\ Result.verified
               /\ IF reply.response # cached.tle.lines
                  THEN /\ Result.tle = TLE(last.norad_id, reply.response,
                                           reply.name)
                       /\ Result.tle # cached.tle
                       /\ Has(Result.warnings, WarnCacheReplaced)
                  ELSE /\ Result.tle = cached.tle
                       /\ ~Has(Result.warnings, WarnCacheReplaced)
                       /\ ~Has(Result.warnings, WarnRepoReplaced)

C5_Witness ==
    /\ CallOne /\ PreCacheFresh /\ Triggered /\ SomeValidates
    /\ last.calls[Len(last.calls)].response # Get(last.pre_cache).tle.lines
    /\ ~last.raised /\ Result.verified

\* C6: in the network step the clients are tried in the configured priority
\* order; the returned record comes from the first client whose response
\* arrives and validates, and no client after that one is called.
C6_FirstValidSourceWins ==
    NetworkStep
        => /\ InPriorityOrder
           /\ ~last.raised =>
                LET n == Len(last.calls)
                IN  /\ n >= 1
                    /\ Validates(last.calls[n])
                    /\ \A i \in 1..(n - 1) : ~Validates(last.calls[i])
                    /\ Result.source = last.calls[n].name
                    /\ Result.tle.lines = last.calls[n].response
                    /\ Result.tle.source = last.calls[n].name

C6_Witness ==
    /\ NetworkStep /\ ~last.raised
    /\ Len(last.calls) = 2
    /\ ~Validates(last.calls[1]) /\ Validates(last.calls[2])
    /\ Result.source = Sources[2]

FailureText(call) ==
    IF call.response = "error" THEN SourceErrorText(call.name)
    ELSE "could not locate TLE line pair in response"

\* C8: in the network step, when every configured client raises SourceError
\* or returns a payload that fails validation, fetch_one fails with the
\* all-sources-failed error, whose message carries the error message of every
\* client attempted; no result is returned, even if a stale entry exists.
C8_AllSourcesFailedCarriesEveryMessage ==
    (NetworkStep /\ ~SomeValidates)
        => /\ last.raised
           /\ last.result = None
           /\ Get(last.error).kind = "AllSourcesFailed"
           /\ Len(last.calls) = Len(Sources)
           /\ \A i \in 1..Len(last.calls) :
                Has(Get(last.error).parts,
                    <<last.calls[i].name, FailureText(last.calls[i])>>)

C8_Witness ==
    /\ NetworkStep /\ ~SomeValidates
    /\ IsSome(last.pre_cache)
    /\ last.raised
    /\ last.calls[1].response = "error" /\ last.calls[2].response = "garbage"

\* C9: fetch_many never aborts the batch on one identity's failure: fetch_one
\* is attempted for every identity of the input, those after a failing one
\* included, and each identity's outcome is reported.
C9_BatchNeverAborts ==
    last.op = "fetch_many"
        => /\ last.attempted = last.ids
           /\ ~last.raised

\* C10: verification triggered on a fresh cache or repository hit while every
\* client fails: fetch_one still returns the record it found, verified =
\* false; no exception escapes and the result is not downgraded.
C10_VerificationFailureSwallowed ==
    (CallOne /\ (PreCacheFresh \/ PreRepoFresh) /\ Triggered /\ ~SomeValidates)
        => LET found == IF PreCacheFresh THEN Get(last.pre_cache)
                        ELSE Get(last.pre_repo)
           IN  /\ ~last.raised
               /\ Result.tle = found.tle
               /\ Result.fetched_at = found.fetched_at
               /\ ~Result.verified
               /\ ~Result.stale
               /\ Result.warnings = <<>>

C10_Witness ==
    /\ CallOne /\ PreRepoFresh /\ Triggered /\ ~SomeValidates
    /\ Len(last.calls) = Len(Sources)
    /\ ~last.raised /\ ~Result.verified

\* C11: when verification is triggered on a fresh hit, fetch_one makes exactly
\* one call of a client's fetch, to the first configured source; when that
\* call fails no other source is contacted.
C11_VerificationCallsFirstSourceOnly ==
    (CallOne /\ (PreCacheFresh \/ PreRepoFresh) /\ Triggered)
        => /\ Len(last.calls) = 1
           /\ last.calls[1].name = Sources[1]

\* ---------------------------------------------- claims on the discovery runs
\* The outcome of the last call of run, read against the tables as they are
\* after it and the catalogue entries as they were before it.
Ran == drun.op = "run"
Succeeded == Ran /\ ~drun.raised
RunResult == Get(drun.result)
Previous == Get(drun.prev)
\* the row of the last run, and the rows that were there when it started
RunRow == runs[Len(runs)]
Earlier == SubSeq(runs, 1, Len(runs) - 1)
\* the key columns of a row or of an entry
Key(e) == <<e.source, e.norad_id, e.lines>>
Stored(key) == \E row \in entries : Key(row) = key
\* the last two calls were given the same source and the same since argument
SameArguments ==
    /\ Ran /\ IsSome(drun.prev)
    /\ Previous.source = drun.source
    /\ Previous.since = drun.since

\* C12: a successful online run followed by a run with the same source, the
\* same since argument and the same upstream payload: the second run reports
\* no new entry and catalog_entries holds the rows it held after the first.
C12_SecondRunAddsNothing ==
    (/\ SameArguments
     /\ ~Previous.offline /\ ~drun.offline
     /\ ~Previous.raised
     /\ Previous.upstream = drun.upstream)
        => /\ entries = drun.pre_entries
           /\ RunRow.new_entries = 0
           /\ Succeeded => RunResult.entries = <<>>

C12_Witness ==
    /\ SameArguments /\ Succeeded
    /\ ~Previous.offline /\ ~drun.offline /\ ~Previous.raised
    /\ Previous.upstream = drun.upstream
    /\ Len(drun.parsed) = 2
    /\ Previous.pre_entries # drun.pre_entries
    /\ RunResult.entries = <<>>

\* C13: a successful online run followed by a run of the same source with
\* offline = true and the same since argument (omitted both times included):
\* the offline run finds the persisted payload, parses the entries the online
\* run parsed, never calls the loader, and when it completes it reports
\* used_cache and leaves catalog_entries as the online run left it.
C13_OfflineReproducesOnlineRun ==
    (/\ SameArguments
     /\ ~Previous.offline /\ ~Previous.raised
     /\ drun.offline)
        => /\ drun.fetched
           /\ drun.loader_calls = 0
           /\ drun.parsed = Previous.parsed
           /\ Succeeded => /\ RunResult.used_cache
                           /\ entries = drun.pre_entries

\* the run raised
Raises(id) == id \in drun.raised_ids

\* C14: a run that raises leaves its row with the error text and a finish
\* time and with the cursor NULL, and the caller gets the exception; a row of
\* runs has an error text exactly when its run raised.
C14_FailedRunSealedWithError ==
    Ran => /\ drun.raised =>
                /\ IsSome(drun.error)
                /\ RunRow.error = drun.error
                /\ RunRow.finished
                /\ RunRow.cursor = None
           /\ \A id \in 1..Len(runs) : IsSome(runs[id].error) <=> Raises(id)
           /\ \A id \in 1..Len(runs) : runs[id].id = id /\ runs[id].finished

C14_Witness ==
    /\ Ran /\ drun.raised
    /\ drun.error = Some(StorageErrorText)
    /\ drun.filtered # <<>>
    /\ \E id \in 1..Len(Earlier) : ~Raises(id) /\ IsSome(runs[id].cursor)
    /\ \E id \in 1..Len(Earlier) : runs[id].error = Some("checksum failed")
    /\ RunRow.error = Some(StorageErrorText) /\ RunRow.cursor = None

\* the rows of earlier runs of the source of the last run, sealed with a cursor
SealedEarlier ==
    {id \in 1..Len(Earlier) :
        runs[id].source = drun.source /\ runs[id].cursor # None}

\* C15: with since omitted the run's effective_since is the cursor of the
\* most recent earlier run of the same source that was sealed with a cursor
\* (failed runs and runs of other sources are passed over), and NULL when
\* there is none; an explicit since is the effective_since, as the same
\* instant in UTC; the row of the run records it.
C15_EffectiveSince ==
    Ran => /\ IF drun.since # None
              THEN drun.effective_since = Some(Normalise(Get(drun.since)))
              ELSE IF SealedEarlier = {}
              THEN drun.effective_since = None
              ELSE \E id \in SealedEarlier :
                      /\ \A other \in SealedEarlier : other <= id
                      /\ drun.effective_since = Some(Naive(Get(runs[id].cursor)))
           /\ RunRow.since =
                 IF drun.effective_since = None THEN None
                 ELSE Some(Get(drun.effective_since).t)

C15_Witness ==
    /\ Ran /\ drun.since = None /\ Len(runs) = 3
    /\ runs[1].source = drun.source /\ runs[1].cursor = Some(1)
    /\ \/ runs[2].source # drun.source /\ runs[2].cursor = Some(2)
       \/ runs[2].source = drun.source /\ Raises(2)
    /\ drun.effective_since = Some(Naive(1))

\* the rows catalog_entries holds for the source of the last run
Mine == {row \in entries : row.source = drun.source}

\* C16: the cursor a successful run seals and returns is the greatest epoch
\* over every row catalog_entries holds for the source, rows of earlier runs
\* included; it is NULL only when the source has no row.
C16_CursorIsMaxStoredEpoch ==
    Succeeded =>
        /\ RunRow.cursor = IF RunResult.cursor = None THEN None
                           ELSE Some(Get(RunResult.cursor).t)
        /\ IF Mine = {} THEN RunResult.cursor = None
           ELSE \E top \in Mine :
                   /\ \A row \in Mine : row.epoch <= top.epoch
                   /\ RunResult.cursor = Some(Naive(top.epoch))

C16_Witness ==
    /\ Succeeded
    /\ RunResult.entries # <<>>
    /\ \A i \in 1..Len(RunResult.entries) :
           RunResult.entries[i].epoch.t < Get(RunResult.cursor).t
    /\ \E row \in entries : row.source # drun.source

\* every run so far derived its since from the cursor
AllDerived == ~drun.explicit_since
\* the number of times a successful run reported the key as a new entry
CountOf(key) ==
    Cardinality({i \in 1..Len(drun.counted) : drun.counted[i] = key})
\* the entry is later than the effective_since of the last run
PastBoundary(entry) ==
    \/ drun.effective_since = None
    \/ Normalise(entry.epoch).t > Get(drun.effective_since).t

\* C17: over runs that all derive since from the cursor, every entry of the
\* payload a successful run fetched is in catalog_entries after that run, and
\* every stored row was reported as new by exactly one run.
C17_NothingLostNorDoubleCounted ==
    (Ran /\ AllDerived)
        => /\ Succeeded =>
                \A i \in 1..Len(drun.parsed) :
                    Stored(Key(drun.parsed[i]))
           /\ \A row \in entries : CountOf(Key(row)) = 1

\* C17, amended: over runs that all derive since from the cursor, every entry
\* of a successfully fetched payload whose epoch is strictly later than the
\* run's effective_since (every entry when it is NULL) is in catalog_entries
\* after that run, and every stored row was reported as new by exactly one
\* run.
C17_NothingPastCursorLost ==
    (Ran /\ AllDerived)
        => /\ Succeeded =>
                \A i \in 1..Len(drun.parsed) :
                    PastBoundary(drun.parsed[i])
                        => Stored(Key(drun.parsed[i]))
           /\ \A row \in entries : CountOf(Key(row)) = 1

C17_Witness ==
    /\ Succeeded /\ AllDerived
    /\ drun.effective_since # None
    /\ \E id \in 1..Len(Earlier) : Raises(id)
    /\ \E i \in 1..Len(drun.parsed) : ~PastBoundary(drun.parsed[i])
    /\ \E i \in 1..Len(drun.parsed) :
          /\ PastBoundary(drun.parsed[i])
          /\ CountOf(Key(drun.parsed[i])) = 1
          /\ ~\E row \in drun.pre_entries :
                 Key(row) = Key(drun.parsed[i])

\* the keys of the rows catalog_entries held when the last run started
Before(key) == \E row \in drun.pre_entries : Key(row) = key
New(key) ==
    \E i \in 1..Len(RunResult.entries) : Key(RunResult.entries[i]) = key

\* C18: catalog_entries has at most one row per (source, norad_id, line1,
\* line2); a run changes no row that was there; an entry offered under a key
\* that has a row leaves the table as it is, and an entry offered under a key
\* that differs in some component from every row becomes a new row.
C18_OneRowPerKey ==
    /\ \A r1 \in entries, r2 \in entries :
           Key(r1) = Key(r2) => r1 = r2
    /\ Ran => drun.pre_entries \subseteq entries
    /\ Succeeded =>
           \A i \in 1..Len(drun.filtered) :
               LET key == Key(drun.filtered[i])
               IN  /\ Stored(key)
                   /\ Before(key) <=> ~New(key)

C18_Witness ==
    /\ Succeeded
    /\ entries = drun.pre_entries
    /\ \E i \in 1..Len(drun.filtered), row \in entries :
          /\ Key(row) = Key(drun.filtered[i])
          /\ row.epoch # drun.filtered[i].epoch.t
    /\ \E r1 \in entries, r2 \in entries :
          /\ r1.source = r2.source /\ r1.lines = r2.lines
          /\ r1.norad_id # r2.norad_id

\* C19: the rows a run adds all have an epoch strictly later than the run's
\* effective_since; of the parsed candidates exactly those with such an
\* epoch are offered for insertion, and all of them when effective_since is
\* NULL.
C19_OnlyPastBoundaryInserted ==
    Ran => /\ \A row \in entries \ drun.pre_entries :
                \/ drun.effective_since = None
                \/ row.epoch > Get(drun.effective_since).t
           /\ drun.fetched =>
                \A i \in 1..Len(drun.parsed) :
                    PastBoundary(drun.parsed[i])
                        <=> \E j \in 1..Len(drun.filtered) :
                               /\ Key(drun.filtered[j])
                                      = Key(drun.parsed[i])
                               /\ drun.filtered[j].epoch
                                      = Normalise(drun.parsed[i].epoch)

C19_Witness ==
    /\ Succeeded
    /\ drun.since = Some(Aware(2, 1))
    /\ \E i \in 1..Len(drun.parsed) :
          /\ Normalise(drun.parsed[i].epoch) = Naive(1)
          /\ ~Stored(Key(drun.parsed[i]))
    /\ \E i \in 1..Len(drun.parsed) :
          /\ Normalise(drun.parsed[i].epoch) = Naive(2)
          /\ New(Key(drun.parsed[i]))

\* ------------------------------------------------ claims on the source client
\* C20: with the threads Callers calling fetch on one SourceClient whose
\* rate_limit_seconds is positive, any two requests that reach the opener are
\* at least rate_limit_seconds apart on the monotonic clock.
C20_FloorBetweenRequests ==
    \A i \in 1..Len(requests), j \in 1..Len(requests) :
        i < j => requests[j] - requests[i] >= RateLimit

\* C21: a transport failure inside SourceClient.fetch is retried before
\* SourceError reaches the caller: every call of fetch that raised had called
\* the opener more than once.
C21_FailureIsRetried ==
    \A i \in 1..Len(outcomes) :
        outcomes[i].raised => outcomes[i].opener_calls > 1

\* ------------------------------------------------ claims on the validator
\* a string of digits, and the number it writes
Numeric(s) == s # <<>> /\ \A i \in 1..Len(s) : s[i] \in DOMAIN DigitValue
\* columns 3-7 of an element line, blanks removed
Field(l) == SelectSeq(SubSeq(l, 3, 7), LAMBDA ch : ch # " ")

\* C23: a parse that was given a numeric expected identity never returns a
\* record whose catalogue field is a number other than that identity.
C23_NoRecordUnderAnotherIdentity ==
    (/\ vout.op \in {"parse", "parse_tle_text"}
     /\ vout.ok
     /\ Numeric(want)
     /\ Numeric(Field(Get(vout.tle).line1)))
        => IntOf(Field(Get(vout.tle).line1)) = IntOf(want)

\* C24: parsing the serialization of a parsed record gives a record with the
\* same line1 and line2, whatever the form of the payload parsed first.
C24_RoundTripKeepsLines ==
    vout.op = "round_trip"
        => /\ vout.ok
           /\ Get(vout.tle).line1 = Get(vout.first).line1
           /\ Get(vout.tle).line2 = Get(vout.first).line2

\* the rule on a string s: the digits and the '-' of all its characters but
\* the last sum, modulo 10, to the last character read as a digit
RuleOn(s) ==
    /\ s # <<>>
    /\ s[Len(s)] \in DOMAIN DigitValue
    /\ Total(SubSeq(s, 1, Len(s) - 1), 1) % 10 = DigitValue[s[Len(s)]]
\* s with its last character replaced by d
Flipped(s, d) == SubSeq(s, 1, Len(s) - 1) \o <<d>>
\* the line without the blanks that follow its last character
Trimmed(s) ==
    LET ends == {i \in 1..Len(s) : s[i] # " "}
    IN  IF ends = {} THEN <<>> ELSE SubSeq(s, 1, SetMax(ends))
Blanks(s) == SubSeq(s, Len(Trimmed(s)) + 1, Len(s))

\* C25 as stated: the rule is read on all the characters of the line handed
\* in, its last character being the checksum digit.
C25_RuleOnTheLineAsGiven ==
    vout.op = "checksum"
        => /\ vout.accepted <=> RuleOn(line)
           /\ vout.accepted =>
                \A d \in DOMAIN DigitValue :
                    d # line[Len(line)] => ~Checksum(Flipped(line, d))

\* C25: the line is accepted iff the rule holds on it once the white space
\* at its end is removed; replacing the trailing digit of an accepted line
\* by another digit gives a line that is rejected.
C25_RuleOnTheTrimmedLine ==
    vout.op = "checksum"
        => /\ vout.accepted <=> RuleOn(Trimmed(line))
           /\ vout.accepted =>
                \A d \in DOMAIN DigitValue :
                    d # Trimmed(line)[Len(Trimmed(line))]
                        => ~Checksum(Flipped(Trimmed(line), d) \o Blanks(line))

\* a line with a '-', a sum past 9 and a blank at its end was accepted
C25_Witness ==
    /\ vout.op = "checksum"
    /\ vout.accepted
    /\ line \in {<<"9", "-", "0">>, <<"1", "1", " ">>}

\* the positions of the payload's lines where a block starts, and the pair
\* (line1, line2) of the block at a position
Starts(lines) ==
    {i \in 1..(Len(lines) - 1) :
        /\ SubSeq(lines[i], 1, 2) = <<"1", " ">>
        /\ SubSeq(lines[i + 1], 1, 2) = <<"2", " ">>}
PairAt(lines, i) == <<lines[i], lines[i + 1]>>
FirstAt(lines, pair) ==
    CHOOSE i \in Starts(lines) :
        /\ PairAt(lines, i) = pair
        /\ \A j \in Starts(lines) : PairAt(lines, j) = pair => i <= j
Candidate(i) == <<vout.blocks[i].line1, vout.blocks[i].line2>>

\* C26: the candidates of a line-oriented payload are its distinct pairs
\* (line1, line2), one candidate each, in the order of their first
\* occurrence.
C26_OneCandidatePerPair ==
    vout.op = "catalog"
        => LET lines == StrippedLines(text.chars)
           IN  /\ \A i, j \in 1..Len(vout.blocks) :
                    Candidate(i) = Candidate(j) => i = j
               /\ {Candidate(i) : i \in 1..Len(vout.blocks)}
                    = {PairAt(lines, i) : i \in Starts(lines)}
               /\ \A i, j \in 1..Len(vout.blocks) :
                    i < j => FirstAt(lines, Candidate(i))
                                < FirstAt(lines, Candidate(j))

\* a payload whose one block comes twice gave one candidate
C26_Witness ==
    /\ vout.op = "catalog"
    /\ Cardinality(Starts(StrippedLines(text.chars))) = 2
    /\ Len(vout.blocks) = 1
    /\ vout.ok
    /\ Len(vout.entries) = 1

\* two distinct blocks gave two candidates
C26_WitnessDistinct ==
    /\ vout.op = "catalog"
    /\ Len(vout.blocks) = 2

\* ------------------------------------- further claims on the fetch service
CallGet == last.op = "cache_get"
Held == Get(last.pre_cache)

\* C22: cache.get with a ttl and allow_stale = false returns the stored entry
\* iff its age by the clock is at most ttl; with allow_stale = true or with
\* no ttl it returns the stored entry whatever its age; the map is as it was.
C22_CacheGetByAge ==
    CallGet
        => /\ cache[last.norad_id] = last.pre_cache
           /\ ~IsSome(last.pre_cache) => last.got = None
           /\ IsSome(last.pre_cache) =>
                IF last.no_ttl \/ last.allow_stale
                THEN last.got = last.pre_cache
                ELSE IF last.now - Held.fetched_at <= last.ttl
                THEN last.got = last.pre_cache
                ELSE last.got = None

\* an entry aged exactly ttl was returned
C22_Witness ==
    /\ CallGet /\ ~last.no_ttl /\ ~last.allow_stale
    /\ IsSome(last.pre_cache)
    /\ last.ttl = 1
    /\ last.now - Held.fetched_at = 1
    /\ last.got = last.pre_cache

\* an older entry was withheld and is still in the map
C22_WitnessWithheld ==
    /\ CallGet /\ ~last.no_ttl /\ ~last.allow_stale
    /\ IsSome(last.pre_cache)
    /\ last.now - Held.fetched_at > last.ttl
    /\ last.got = None
    /\ cache[last.norad_id] = last.pre_cache

\* the call of client.fetch whose answer validated, and the entry made of it
FirstValid ==
    CHOOSE i \in 1..Len(last.calls) :
        /\ Validates(last.calls[i])
        /\ \A j \in 1..(i - 1) : ~Validates(last.calls[j])
Refreshed ==
    [tle |-> [norad_id |-> last.norad_id,
              lines |-> last.calls[FirstValid].response,
              source |-> last.calls[FirstValid].name],
     fetched_at |-> last.now,
     source |-> last.calls[FirstValid].name]

C27_WitnessRepo ==
    /\ CallOne /\ PreRepoFresh /\ Triggered /\ SomeValidates
    /\ cache[last.norad_id] = Some(Refreshed)
    /\ repo[last.norad_id] = Some(Refreshed)

CallAgain == last.op = "fetch_one_again"
CallBefore == Get(last.prior)
\* the call before found the cache entry stale or absent and the repository
\* entry fresh (same clock, same ttl)
AfterRepoHit ==
    /\ CallAgain
    /\ ~FreshAt(CallBefore.pre_cache)
    /\ FreshAt(CallBefore.pre_repo)

\* C28 as stated: the call that follows a fresh repository hit at once reads
\* neither the repository nor any source.
C28_NextCallReadsCacheOnly ==
    AfterRepoHit
        => /\ ~last.raised
           /\ last.repo_reads = 0
           /\ last.calls = <<>>

\* C28: the call that follows a fresh repository hit at once finds the
\* promoted entry fresh in the cache and does not read the repository; it
\* calls no source unless its own verification is triggered.
C28_NextCallServedFromCache ==
    AfterRepoHit
        => /\ ~last.raised
           /\ FreshAt(last.pre_cache)
           /\ (\A i \in 1..Len(CallBefore.calls) : ~Validates(CallBefore.calls[i]))
                => last.pre_cache = CallBefore.pre_repo
           /\ last.repo_reads = 0
           /\ ~Triggered
                => /\ last.calls = <<>>
                   /\ Result.source = "cache"
                   /\ Result.tle = Get(last.pre_cache).tle

\* the cache was empty before the repository hit, and the next call was
\* answered by the cache
C28_Witness ==
    /\ AfterRepoHit
    /\ ~IsSome(CallBefore.pre_cache)
    /\ CallBefore.calls = <<>>
    /\ ~Triggered
    /\ last.pre_cache = CallBefore.pre_repo
    /\ last.repo_reads = 0
    /\ last.calls = <<>>
    /\ Result.source = "cache"

\* what fetch_one returned, as the fields of an entry
Answer == [tle |-> Result.tle, fetched_at |-> Result.fetched_at,
           source |-> Result.source]
EntryOf(opt) == [tle |-> Get(opt).tle, fetched_at |-> Get(opt).fetched_at,
                 source |-> Get(opt).source]

\* C29: offline with stale entries only, the entry returned is the one with
\* the later fetched_at when both tiers hold one, and the only one when one
\* tier holds one.
C29_LaterStaleEntryUsed ==
    (CallOne /\ last.offline /\ NoFresh
        /\ (IsSome(last.pre_cache) \/ IsSome(last.pre_repo)))
        => /\ ~last.raised
           /\ Result.stale
           /\ IF IsSome(last.pre_cache) /\ IsSome(last.pre_repo)
              THEN /\ Answer \in {EntryOf(last.pre_cache), EntryOf(last.pre_repo)}
                   /\ Answer.fetched_at >= Get(last.pre_cache).fetched_at
                   /\ Answer.fetched_at >= Get(last.pre_repo).fetched_at
              ELSE IF IsSome(last.pre_cache)
              THEN Answer = EntryOf(last.pre_cache)
              ELSE Answer = EntryOf(last.pre_repo)

\* both tiers stale, the repository's entry the later one, and returned
C29_Witness ==
    /\ CallOne /\ last.offline /\ NoFresh
    /\ IsSome(last.pre_cache) /\ IsSome(last.pre_repo)
    /\ Get(last.pre_repo).fetched_at > Get(last.pre_cache).fetched_at
    /\ Get(last.pre_repo).tle.lines # Get(last.pre_cache).tle.lines
    /\ Answer = EntryOf(last.pre_repo)

\* ------------------------------------------------ claims on offline runs
\* the key (source, effective_since) of the last run, the rows of
\* catalog_cache under it, and the rows of the same source under another key
RunKey ==
    <<drun.source,
      IF IsSome(drun.effective_since)
      THEN Some(Get(drun.effective_since).t) ELSE None>>
UnderKey == {row \in payloads : row.cache_key = RunKey}
OtherKeys ==
    {row \in payloads :
        row.cache_key[1] = drun.source /\ row.cache_key # RunKey}
OfflineText == drun.source \o ": no cached response available for offline mode"

\* C30: an offline run never invokes the loader; it parses the payload kept
\* under the key (source, effective_since), and with no payload under that
\* key it fails with the offline error and its row is sealed with that error.
C30_OfflineLoadsByKey ==
    (Ran /\ drun.offline)
        => /\ drun.loader_calls = 0
           /\ Cardinality(UnderKey) <= 1
           /\ UnderKey = {}
                => /\ drun.raised
                   /\ drun.error = Some(OfflineText)
                   /\ RunRow.finished
                   /\ RunRow.error = Some(OfflineText)
                   /\ RunRow.cursor = None
                   /\ entries = drun.pre_entries
           /\ \A row \in UnderKey :
                /\ drun.fetched
                /\ drun.parsed = Parse(drun.source, row.payload).entries

\* a payload of the same source is kept under another key only: the run
\* failed with the offline error
C30_Witness ==
    /\ Ran /\ drun.offline
    /\ UnderKey = {}
    /\ OtherKeys # {}
    /\ drun.raised
    /\ RunRow.error = Some(OfflineText)
    /\ drun.loader_calls = 0

\* payloads under both keys: the one under the run's key was parsed
C30_WitnessLoaded ==
    /\ Ran /\ drun.offline
    /\ UnderKey # {}
    /\ \E other \in OtherKeys : \A row \in UnderKey :
            Parse(drun.source, other.payload).entries # drun.parsed
    /\ drun.parsed # <<>>

\* --------------------------------- frame and result claims on fetch_one
\* a call of fetch_one is the step from no call to its outcome
StepOfFetchOne == last.op = "none" /\ last'.op = "fetch_one"

\* C33: fetch_one for identity k changes only the cache and repository
\* entries keyed by k: for every other identity the cache entry and the
\* repository entry are the same after the call as before it, on every path.
C33_OnlyOwnEntriesChange ==
    [][StepOfFetchOne
        => \A j \in Ids \ {last'.norad_id} :
               cache'[j] = cache[j] /\ repo'[j] = repo[j]]_vars

\* a network success for one identity wrote both of its tiers while the
\* other identity holds an entry in each tier
C33_Witness ==
    /\ CallOne /\ ~last.raised /\ last.calls # <<>>
    /\ cache[last.norad_id] # last.pre_cache
    /\ repo[last.norad_id] # last.pre_repo
    /\ \E j \in Ids \ {last.norad_id} :
            /\ IsSome(cache[j]) /\ IsSome(repo[j])
            /\ Get(cache[j]).tle.lines # Get(cache[last.norad_id]).tle.lines

\* C37: when fetch_one fails (every source failed, or offline with no
\* entry), the cache and the repository are left exactly as they were before
\* the call, for every identity.
C37_FailureLeavesTiersAlone ==
    [][(StepOfFetchOne /\ last'.raised)
        => cache' = cache /\ repo' = repo]_vars

\* every source was called and failed while both tiers held a stale entry
C37_Witness ==
    /\ CallOne /\ last.raised
    /\ Get(last.error).kind = "AllSourcesFailed"
    /\ Len(last.calls) = Len(Sources)
    /\ IsSome(last.pre_cache) /\ IsSome(last.pre_repo)
    /\ cache[last.norad_id] = last.pre_cache

\* offline with no entry in either tier
C37_WitnessOffline ==
    /\ CallOne /\ last.raised
    /\ Get(last.error).kind = "OfflineUnavailable"
    /\ cache[last.norad_id] = None /\ repo[last.norad_id] = None

\* C39: a result with stale = true was produced with offline = true and
\* carries the offline warning; a result from a fresh cache hit, a fresh
\* repository hit or the network step has stale = false; verified = true
\* occurs only when verification was triggered on a fresh hit and a client
\* answered it with a record that validates.
C39_StaleAndVerifiedFlags ==
    (CallOne /\ ~last.raised)
        => /\ Result.stale
                => last.offline /\ Has(Result.warnings, WarnOffline)
           /\ (PreCacheFresh \/ PreRepoFresh \/ NetworkStep)
                => ~Result.stale
           /\ Result.verified
                => /\ PreCacheFresh \/ PreRepoFresh
                   /\ Triggered
                   /\ SomeValidates

\* verification was triggered on a fresh hit and no client answered: the
\* result is returned unverified
C39_Witness ==
    /\ CallOne /\ ~last.raised
    /\ PreCacheFresh /\ Triggered
    /\ Len(last.calls) = Len(Sources) /\ ~SomeValidates
    /\ ~Result.verified /\ ~Result.stale

\* a stale result, and a verified one
C39_WitnessStale ==
    CallOne /\ ~last.raised /\ Result.stale /\ last.offline
C39_WitnessVerified ==
    CallOne /\ ~last.raised /\ Result.verified /\ PreRepoFresh

\* ------------------------------------------- claims on the sealed cursors
\* the rows of runs sealed by a successful run
SealedOk(i) == runs[i].finished /\ ~IsSome(runs[i].error)
\* cursor a is not later than cursor b; no cursor is before any cursor
NotAfter(a, b) == IsSome(a) => IsSome(b) /\ Get(a) <= Get(b)

\* C38: the cursors sealed by successive successful runs of one source never
\* decrease, whatever since the runs were given and whether they ran offline.
C38_SealedCursorsNeverDecrease ==
    \A i, j \in 1..Len(runs) :
        (i < j /\ runs[i].source = runs[j].source /\ SealedOk(i) /\ SealedOk(j))
            => NotAfter(runs[i].cursor, runs[j].cursor)

\* a successful run given a since earlier than the cursor sealed before it
C38_Witness ==
    \E i, j \in 1..Len(runs) :
        /\ i < j /\ runs[i].source = runs[j].source
        /\ SealedOk(i) /\ SealedOk(j)
        /\ IsSome(runs[i].cursor) /\ IsSome(runs[j].since)
        /\ Get(runs[j].since) < Get(runs[i].cursor)
        /\ Get(runs[j].cursor) > Get(runs[i].cursor)

\* a successful offline run after a successful run that sealed a cursor
C38_WitnessOffline ==
    \E i, j \in 1..Len(runs) :
        /\ i < j /\ runs[i].source = runs[j].source
        /\ SealedOk(i) /\ SealedOk(j)
        /\ IsSome(runs[i].cursor) /\ runs[j].offline
        /\ runs[j].used_cache /\ runs[j].cursor = runs[i].cursor

\* ------------------------------------------- claims on the single caller
\* the sleeper moved the clock on by at least every delay it was asked for
Honest(call) ==
    \A k \in 1..Len(call.sleeps) : call.advance >= call.sleeps[k]

\* C34: for a single caller and rate_limit_seconds > 0, with a sleeper that
\* advances the monotonic clock by at least the requested delay, the
\* timestamps recorded by two consecutive calls of fetch differ by at least
\* rate_limit_seconds, and the timestamp is recorded even when the request
\* fails; with rate_limit_seconds <= 0 fetch never sleeps.
C34_SingleCallerFloor ==
    LET c == solo.calls
        limit == solo.rate_limit_seconds
    IN  /\ limit > 0
            => /\ \A i \in 1..Len(c) : IsSome(c[i].recorded)
               /\ Len(c) > 0 => solo.last_request = Get(c[Len(c)].recorded)
               /\ \A i \in 1..(Len(c) - 1) :
                      Honest(c[i + 1])
                          => Get(c[i + 1].recorded) - Get(c[i].recorded)
                                >= limit
        /\ limit <= 0 => \A i \in 1..Len(c) : c[i].sleeps = <<>>

\* two consecutive calls: the request of the first failed, the second was
\* made before the interval had passed and slept for the remainder
C34_Witness ==
    /\ solo.rate_limit_seconds > 0
    /\ \E i \in 1..(Len(solo.calls) - 1) :
        /\ solo.calls[i].outcome.raised
        /\ solo.calls[i + 1].sleeps # <<>>
        /\ Honest(solo.calls[i + 1])
        /\ solo.calls[i + 1].entered - Get(solo.calls[i].recorded)
               < solo.rate_limit_seconds
        /\ Get(solo.calls[i + 1].recorded) - Get(solo.calls[i].recorded)
               >= solo.rate_limit_seconds

\* no limit: two calls at the same reading of the clock, no sleep
C34_WitnessNoLimit ==
    /\ solo.rate_limit_seconds <= 0
    /\ \E i \in 1..(Len(solo.calls) - 1) :
        /\ solo.calls[i + 1].opener_at = solo.calls[i].opener_at
        /\ solo.calls[i + 1].sleeps = <<>>

\* ------------------------------------------------------ claims on http_get
\* the attempts made so far and the sleeps taken so far, from the log
IsAttempt(ev) == ev \in AttemptOutcomes
Attempts == Len(SelectSeq(http.log, IsAttempt))
HttpEnded == http.pc \in {"returned", "raised"}
\* every sleep in the log stands between two attempts
SleepsBetweenAttempts ==
    /\ \A i \in 1..Len(http.log) :
           http.log[i] = "sleep"
               => /\ i > 1 /\ IsAttempt(http.log[i - 1])
                  /\ i < Len(http.log) => IsAttempt(http.log[i + 1])
    /\ HttpEnded => (http.log = <<>> \/ IsAttempt(http.log[Len(http.log)]))
\* the body returned is that of the first attempt that read one
ReturnsFirstBody ==
    http.pc = "returned"
        => /\ http.log[Len(http.log)] = "ok"
           /\ \A i \in 1..(Len(http.log) - 1) : http.log[i] # "ok"
           /\ http.result = Some(BodyOf(Attempts - 1))
\* the exception of the last attempt made
LastAttemptExc ==
    Some(ExcOf(http.log[Len(http.log)], Attempts - 1))

\* a call in progress ends
HttpTerminates == (http.pc # "idle") ~> HttpEnded

C35_WitnessReturned ==
    http.pc = "returned" /\ Attempts = 2 /\ http.result = Some(BodyOf(1))

\* ------------------------------------ claims on the interleaved runs
\* the row of runs is as _log_run_start wrote it
RowOpen(row) ==
    /\ ~row.finished /\ ~IsSome(row.error) /\ ~IsSome(row.cursor)
    /\ row.new_entries = 0 /\ ~row.used_cache
\* the step takes pipeline p to pc
Arrives(p, pc) == pipes[p].pc # pc /\ pipes'[p].pc = pc
\* the sealing updates of row run_id
SealsOf(S, run_id) == {k \in 1..Len(S) : S[k].run_id = run_id}

\* C31: the row of a run is inserted open before the loader is called; when
\* run returns the row is sealed with the finish data and no error text, when
\* run raises it is sealed with the error text; each row is sealed by one
\* update, and a sealed row is never written again by any run.
C31_RowSealedOnce ==
    [][\A p \in Pipes :
        /\ Arrives(p, "fetch") =>
               /\ pipes'[p].run_id = Len(runs')
               /\ Len(runs') = Len(runs) + 1
               /\ RowOpen(runs'[Len(runs')])
               /\ pipes'[p].loader_calls = 0
        /\ pipes'[p].loader_calls > pipes[p].loader_calls =>
               /\ pipes[p].run_id \in 1..Len(runs)
               /\ RowOpen(runs[pipes[p].run_id])
        /\ pipes[p].pc \in {"fetch", "store", "failed"} =>
               /\ ~runs[pipes[p].run_id].finished
               /\ SealsOf(seals, pipes[p].run_id) = {}
        /\ Arrives(p, "returned") =>
               /\ runs'[pipes[p].run_id].finished
               /\ ~IsSome(runs'[pipes[p].run_id].error)
               /\ runs'[pipes[p].run_id].new_entries = Len(pipes[p].new)
               /\ Cardinality(SealsOf(seals', pipes[p].run_id)) = 1
        /\ Arrives(p, "raised") =>
               /\ runs'[pipes[p].run_id].finished
               /\ runs'[pipes[p].run_id].error = pipes[p].error
               /\ IsSome(pipes[p].error)
               /\ Cardinality(SealsOf(seals', pipes[p].run_id)) = 1
        /\ \A i \in 1..Len(runs) :
               /\ runs[i].finished => runs'[i] = runs[i]
               /\ Cardinality(SealsOf(seals', runs[i].id)) <= 1]_vars

\* a run sealed with an error, and after it a run of the other pipeline that
\* was in progress at the same time sealed with its finish data
C31_Witness ==
    \E i, j \in 1..Len(seals) :
        /\ i < j
        /\ seals[i].kind = "error" /\ seals[j].kind = "finish"
        /\ seals[i].run_id \in seals[j].met
        /\ runs[seals[i].run_id].finished /\ runs[seals[j].run_id].finished
        /\ IsSome(runs[seals[i].run_id].error)

\* how often the finished runs counted the row as new
TimesCounted(row) ==
    Cardinality({pair \in (1..Len(seals)) \X (1..MaxCatalogLines) :
                    /\ seals[pair[1]].kind = "finish"
                    /\ pair[2] <= Len(seals[pair[1]].new)
                    /\ seals[pair[1]].new[pair[2]] = Identity(row)})
\* how often the run of sealing update k counted the row as new
CountedIn(k, row) ==
    Cardinality({n \in 1..Len(seals[k].new) :
                    seals[k].kind = "finish" /\ seals[k].new[n] = Identity(row)})
\* sealing updates k and l are of two successful runs of one source over
\* the same payload that were in progress at the same time
Interleaved(k, l) ==
    /\ k # l
    /\ seals[k].kind = "finish" /\ seals[l].kind = "finish"
    /\ seals[k].source = seals[l].source
    /\ seals[k].parsed = seals[l].parsed /\ seals[k].parsed # <<>>
    /\ seals[l].run_id \in seals[k].met

\* C32: catalog_entries holds at most one row per (source, norad_id, line1,
\* line2); every row it holds was counted as new by exactly one run, so of
\* two runs of one source that interleave over the same payload at most one
\* counts a row, and the new_entries of a run's row is the number it counted.
C32_CountedByOneRun ==
    /\ \A a, b \in entries : Identity(a) = Identity(b) => a = b
    /\ \A row \in entries : TimesCounted(row) = 1
    /\ \A k \in 1..Len(seals) :
           seals[k].kind = "finish" =>
               /\ runs[seals[k].run_id].new_entries = Len(seals[k].new)
               /\ \A n \in 1..Len(seals[k].new) :
                      \E row \in entries : Identity(row) = seals[k].new[n]
    /\ \A k, l \in 1..Len(seals) :
           Interleaved(k, l) =>
               \A row \in entries :
                   \/ CountedIn(k, row) + CountedIn(l, row) = 1
                   \/ /\ CountedIn(k, row) + CountedIn(l, row) = 0
                      /\ \E m \in 1..Len(seals) :
                             m \notin {k, l} /\ CountedIn(m, row) = 1
                   \/ row.source # seals[k].source

\* two interleaved runs over the same payload, whose rows one of them added
C32_Witness ==
    \E k, l \in 1..Len(seals) :
        /\ Interleaved(k, l)
        /\ Len(seals[k].new) + Len(seals[l].new) = Len(seals[k].parsed)
        /\ Len(seals[k].parsed) = 2

\* the rows of catalog_entries for the entries of a list
RowsOf(list) ==
    {row \in entries' : \E n \in 1..Len(list) : Identity(row) = Identity(list[n])}

\* C36: catalog_entries changes only in the step that commits the store
\* step of a run together with its sealed row, and then by all the rows the
\* run counted; the step in which a run raises leaves catalog_entries as it
\* was, and a run that raises with no other run in progress during it leaves
\* catalog_entries as it was when the run began.
C36_FailedRunAddsNothing ==
    [][/\ \A p \in Pipes :
             /\ (Arrives(p, "failed") \/ Arrives(p, "raised")) =>
                    entries' = entries
             /\ (Arrives(p, "raised") /\ pipes[p].met = {}) =>
                    entries' = pipes[p].pre_entries
       /\ entries' # entries =>
             \E p \in Pipes :
                 /\ Arrives(p, "returned")
                 /\ runs'[pipes[p].run_id].finished
                 /\ ~IsSome(runs'[pipes[p].run_id].error)
                 /\ entries' \ entries = RowsOf(pipes[p].new)
                 /\ Cardinality(entries' \ entries) = Len(pipes[p].new)]_vars

\* a run has raised after its store step had inserted a row
C36_Witness ==
    \E p \in Pipes :
        /\ pipes[p].pc = "raised"
        /\ pipes[p].error = Some(StorageErrorText)
        /\ Len(pipes[p].new) > 0
        /\ \A n \in 1..Len(pipes[p].new) :
               ~\E row \in entries : Identity(row) = Identity(pipes[p].new[n])
====
